---- MODULE Spec2Model ----
(***************************************************************************)
(* Event-attendance tool: the attendance page (load, local toggles, batched *)
(* save), the QR payload parse, and the guest / group operations of the     *)
(* data layer, over a model of the hosted store's tables.                   *)
(***************************************************************************)
EXTENDS Integers, Sequences, FiniteSets, TLC

\* ------------------------------------------------------------------ bounds
MaxClock == 2          \* distinct values of new Date() a run observes

\* --------------------------------------------------------------- constants
NULL == "null"
NoQr == <<>>                       \* qrData / activeQrData undefined
NoEvent == ""                      \* eventId prop undefined
StaffName == "Staff"               \* user?.email || 'Staff'
OtherStaff == "Other"
Sentinel == "CREATE_NEW_GROUP"

ErrInvalidQr == "Invalid QR code format"
ErrNoEventId == "No event ID provided"
ErrEventNotFound == "Event not found"
ErrEmptyGroup == "No attendees found for this group"

Names == <<"Ann", "Bob", "Cy", Sentinel>>
NameRank(n) == CHOOSE i \in 1..Len(Names) : Names[i] = n

\* ------------------------------------------------------------ JSON.parse
\* A raw payload is the sequence of its lexemes; k is the lexeme's kind and
\* s its text ("bad" is text that is no JSON lexeme).
Tok(k, s) == [k |-> k, s |-> s]
LB == Tok("{", "")
RB == Tok("}", "")
LA == Tok("[", "")
RA == Tok("]", "")
CL == Tok(":", "")
CM == Tok(",", "")
TStr(s) == Tok("str", s)
TNum(s) == Tok("num", s)
TNull == Tok("null", "")
TBad == Tok("bad", "scan")

ScalarKinds == {"str", "num", "null", "true", "false"}

\* A JavaScript value: t its type, s its text when scalar, m the members of
\* an object in source order.
JsVal(t, s, m) == [t |-> t, s |-> s, m |-> m]
Undefined == JsVal("undef", "", <<>>)
ScalarOf(tok) == JsVal(tok.k, tok.s, <<>>)

MembersOk(inner) ==
    /\ Len(inner) % 4 = 3
    /\ \A i \in 1..Len(inner) :
          CASE i % 4 = 1 -> inner[i].k = "str"
            [] i % 4 = 2 -> inner[i] = CL
            [] i % 4 = 3 -> inner[i].k \in ScalarKinds
            [] OTHER -> inner[i] = CM

MembersOf(inner) ==
    [j \in 1..((Len(inner) + 1) \div 4) |->
        <<inner[4 * j - 3].s, ScalarOf(inner[4 * j - 1])>>]

\* JSON.parse: ok = FALSE stands for the SyntaxError it throws.
JsonParse(raw) ==
    IF Len(raw) = 1 /\ raw[1].k \in ScalarKinds
    THEN [ok |-> TRUE, val |-> ScalarOf(raw[1])]
    ELSE IF raw = <<LA, RA>>
    THEN [ok |-> TRUE, val |-> JsVal("arr", "", <<>>)]
    ELSE IF Len(raw) >= 2 /\ raw[1] = LB /\ raw[Len(raw)] = RB
    THEN LET inner == SubSeq(raw, 2, Len(raw) - 1) IN
         IF inner = <<>>
         THEN [ok |-> TRUE, val |-> JsVal("obj", "", <<>>)]
         ELSE IF MembersOk(inner)
         THEN [ok |-> TRUE, val |-> JsVal("obj", "", MembersOf(inner))]
         ELSE [ok |-> FALSE, val |-> Undefined]
    ELSE [ok |-> FALSE, val |-> Undefined]

\* v.key for a non-null v: the last member of that name, else undefined.
GetProp(v, key) ==
    LET hits == {j \in 1..Len(v.m) : v.m[j][1] = key} IN
    IF hits = {} THEN Undefined
    ELSE v.m[CHOOSE j \in hits : \A h \in hits : h <= j][2]

\* !x is false
Truthy(x) ==
    CASE x.t = "str" -> x.s # ""
      [] x.t = "num" -> x.s # "0"
      [] x.t = "true" -> TRUE
      [] x.t \in {"obj", "arr"} -> TRUE
      [] OTHER -> FALSE

\* The QR branch of loadEventData up to its first await.
\* ok = FALSE: 'Invalid QR code format' was thrown; qr: setIsQRMode(true) ran.
ParseQr(raw) ==
    LET p == JsonParse(raw) IN
    IF ~p.ok THEN [ok |-> FALSE, qr |-> FALSE, event |-> Undefined, group |-> Undefined]
    ELSE IF p.val.t = "null"
    THEN [ok |-> FALSE, qr |-> TRUE, event |-> Undefined, group |-> Undefined]
    ELSE LET g == GetProp(p.val, "group_id")
             e == GetProp(p.val, "event_id") IN
         IF ~Truthy(g) \/ ~Truthy(e)
         THEN [ok |-> FALSE, qr |-> TRUE, event |-> Undefined, group |-> Undefined]
         ELSE [ok |-> TRUE, qr |-> TRUE, event |-> e, group |-> g]

QrObj(g, e) == <<LB, TStr("group_id"), CL, g, CM, TStr("event_id"), CL, e, RB>>

\* The payloads a scanner delivers (never the empty string).
ScannedPayloads ==
    { QrObj(TStr("g1"), TStr("e1")),
      QrObj(TStr("g2"), TStr("e1")),
      QrObj(TStr("g3"), TStr("e1")),
      <<LB, TStr("event_id"), CL, TStr("e1"), CM, TStr("group_id"), CL, TStr("g1"), RB>>,
      QrObj(TStr("g1"), TStr("e9")),
      QrObj(TNum("7"), TStr("e1")),
      QrObj(TStr("g1"), TNum("7")),
      QrObj(TStr(""), TStr("e1")),
      QrObj(TNull, TStr("e1")),
      <<LB, TStr("group_id"), CL, TStr("g1"), RB>>,
      <<LB, RB>>,
      <<TNull>>,
      <<TNum("7")>>,
      <<LA, RA>>,
      <<TBad>>,
      <<LB, TStr("group_id"), CL, TStr("g1"), CM, RB>> }

\* The payloads scanned from within a running attendance page.
InlinePayloads ==
    { QrObj(TStr("g1"), TStr("e1")),
      QrObj(TStr("g2"), TStr("e1")),
      QrObj(TStr("g3"), TStr("e1")),
      <<LB, TStr("event_id"), CL, TStr("e1"), CM, TStr("group_id"), CL, TStr("g1"), RB>>,
      <<TBad>> }


\* ------------------------------------------------------------------ state
VARIABLES
    dbEvents,           \* events table: the set of event ids
    dbGroups,           \* groups table: id -> row
    dbAttendees,        \* attendees table: id -> row
    now,                \* the value new Date() returns
    eventId,            \* AttendancePage prop
    activeQrData,       \* raw payload, NoQr when undefined
    attendees,          \* working copy
    originalAttendees,  \* baseline snapshot
    loading,
    error,
    isQRMode,
    showScanner,
    hasUnsavedChanges,
    isSaving,
    loadPc,             \* position of the running loadEventData
    ld,                 \* its locals: actualEventId, actualGroupId
    savePc,             \* position of the running saveAttendance
    sv,                 \* its closure: attendees, originalAttendees, the two id lists
    saveCalls,          \* markAttendance calls of the last saveAttendance
    saveResult,         \* how the last saveAttendance ended
    loadedSince,        \* a Load replaced the lists since it was invoked
    touched,            \* a local operation or a Load ran since it was invoked
    nextGroupId,        \* group rows inserted so far (the next row's id)
    nextAttendeeId,     \* attendee rows inserted so far
    ag,                 \* the running addGuest: position and locals
    agLast,             \* what the last addGuest did
    foc,                \* the callers of findOrCreateGroup: position and locals
    bi,                 \* the running bulkImportAttendees: position, locals, result
    dlg,                \* BulkImportDialog state
    ex,                 \* EventManagement: the guest list and the text downloadCSV made
    de,                 \* the running deleteEvent: position and result
    auth,               \* AuthProvider: user, provider token, sessionStorage
    searchTerm,         \* AttendancePage search box
    rt                  \* real-time attendance page: local flags and toggle calls

storeVars == <<dbEvents, dbGroups, dbAttendees, now>>
pageVars == <<eventId, activeQrData, attendees, originalAttendees, loading, error,
              isQRMode, showScanner, hasUnsavedChanges, isSaving, loadPc, ld>>
saveVars == <<savePc, sv, saveCalls, saveResult, loadedSince, touched>>
adminVars == <<nextGroupId, nextAttendeeId, ag, agLast, foc>>
importVars == <<bi, dlg>>
toolVars == <<ex, de, auth, searchTerm, rt>>
vars == <<storeVars, pageVars, saveVars, adminVars, importVars, toolVars>>

\* ------------------------------------------------------------ the store
NullTime == 0

GroupRow(id, e, n, m) == [id |-> id, event_id |-> e, name |-> n, email |-> m]

AttendeeRow(id, e, g, n, m, f, at, by) ==
    [id |-> id, event_id |-> e, group_id |-> g, name |-> n, email |-> m,
     is_attending |-> f, checked_in_at |-> at, checked_in_by |-> by]

Rows(tbl) == {tbl[i] : i \in DOMAIN tbl}

\* .order('name', { ascending: true }): every order of S that ascends by
\* name (rows of equal name come in any order).
OrderedByName(S) ==
    {q \in [1..Cardinality(S) -> S] :
        /\ \A i, j \in 1..Cardinality(S) : i # j => q[i] # q[j]
        /\ \A i, j \in 1..Cardinality(S) :
              i < j => NameRank(q[i].name) <= NameRank(q[j].name)}

\* .eq('id', v) on a uuid column matches only a string value.
EventFound(v) == v.t = "str" /\ v.s \in dbEvents

EventAttendeesQuery(e) ==
    {r \in Rows(dbAttendees) : e.t = "str" /\ r.event_id = e.s}

GroupAttendeesQuery(e, g) ==
    {r \in Rows(dbAttendees) :
        /\ e.t = "str" /\ r.event_id = e.s
        /\ g.t = "str" /\ r.group_id = g.s}

\* markAttendance's update of the rows whose id is in ids.
MarkAttendanceUpdate(tbl, ids, isAttending, checkedInBy, t) ==
    [i \in DOMAIN tbl |->
        IF \E k \in 1..Len(ids) : ids[k] = i
        THEN [tbl[i] EXCEPT !.is_attending = isAttending,
                            !.checked_in_at = IF isAttending THEN t ELSE NullTime,
                            !.checked_in_by = IF isAttending THEN checkedInBy ELSE NULL]
        ELSE tbl[i]]

\* --------------------------------------------------- attendance page: view
MainView == ~loading /\ error = NULL

\* Array.prototype.filter: the elements at the kept indices, in order.
Filter(q, kept) ==
    LET F[i \in 0..Len(q)] ==
            IF i = 0 THEN <<>>
            ELSE IF i \in kept THEN Append(F[i - 1], q[i]) ELSE F[i - 1]
    IN F[Len(q)]

IdsOf(q) == [i \in 1..Len(q) |-> q[i].id]
IdSet(q) == {q[i].id : i \in 1..Len(q)}
PresentCount(q) == Cardinality({i \in 1..Len(q) : q[i].is_attending})


\* The record of the last saveAttendance (saveCalls, saveResult, loadedSince,
\* touched) is kept until the working copy next changes after it ended.
SaveRecordAfterChange(byLoad) ==
    IF savePc = "idle"
    THEN /\ saveCalls' = <<>>
         /\ saveResult' = "none"
         /\ loadedSince' = FALSE
         /\ touched' = FALSE
    ELSE /\ loadedSince' = (byLoad \/ loadedSince)
         /\ touched' = TRUE
         /\ UNCHANGED <<saveCalls, saveResult>>

\* ------------------------------------------------- attendance page: Load
NoLoad == [event |-> Undefined, group |-> Undefined, qr |-> FALSE]

\* catch + finally of loadEventData
LoadFailed(msg) ==
    /\ error' = msg
    /\ loading' = FALSE
    /\ loadPc' = "idle"
    /\ ld' = NoLoad

\* loadEventData from its first line to the await of getEvent, run with the
\* payload raw (the activeQrData of the render that starts it).
LoadStart(raw) ==
    IF raw # NoQr
    THEN LET p == ParseQr(raw) IN
         /\ isQRMode' = (IF p.qr THEN TRUE ELSE isQRMode)
         /\ IF p.ok
            THEN /\ loading' = TRUE
                 /\ error' = NULL
                 /\ loadPc' = "getEvent"
                 /\ ld' = [event |-> p.event, group |-> p.group, qr |-> TRUE]
            ELSE LoadFailed(ErrInvalidQr)
    ELSE /\ isQRMode' = FALSE
         /\ IF eventId = NoEvent
            THEN LoadFailed(ErrNoEventId)
            ELSE /\ loading' = TRUE
                 /\ error' = NULL
                 /\ loadPc' = "getEvent"
                 /\ ld' = [event |-> JsVal("str", eventId, <<>>), group |-> Undefined,
                           qr |-> FALSE]

\* The effect of the first render.
Mount ==
    /\ loadPc = "mount"
    /\ LoadStart(activeQrData)
    /\ UNCHANGED <<eventId, activeQrData, attendees, originalAttendees, showScanner,
                   hasUnsavedChanges, isSaving>>
    /\ UNCHANGED <<storeVars, saveVars, adminVars, importVars, toolVars>>

\* getEvent returns: the row, or null when there is none or the read fails.
LoadGetEvent ==
    /\ loadPc = "getEvent"
    /\ \E rejected \in BOOLEAN :
          IF ~rejected /\ EventFound(ld.event)
          THEN /\ loadPc' = "getAttendees"
               /\ UNCHANGED <<loading, error, ld>>
          ELSE LoadFailed(ErrEventNotFound)
    /\ UNCHANGED <<eventId, activeQrData, attendees, originalAttendees, isQRMode,
                   showScanner, hasUnsavedChanges, isSaving>>
    /\ UNCHANGED <<storeVars, saveVars, adminVars, importVars, toolVars>>

\* setAttendees / setOriginalAttendees / setHasUnsavedChanges(false) / finally
LoadSucceeded(rows) ==
    /\ attendees' = rows
    /\ originalAttendees' = rows
    /\ hasUnsavedChanges' = FALSE
    /\ loading' = FALSE
    /\ loadPc' = "idle"
    /\ ld' = NoLoad
    /\ SaveRecordAfterChange(TRUE)
    /\ UNCHANGED error

LoadGroupRowsUnchecked(rows) == LoadSucceeded(rows)

\* What the group branch does with the rows getGroupAttendees returned.
LoadGroupRows(rows) ==
    IF Len(rows) = 0
    THEN /\ LoadFailed(ErrEmptyGroup)
         /\ UNCHANGED <<attendees, originalAttendees, hasUnsavedChanges, saveCalls,
                         saveResult, loadedSince, touched>>
    ELSE LoadSucceeded(rows)

\* getGroupAttendees / getEventAttendees return: the rows ordered by name, or
\* [] when the read fails.
LoadGetAttendees ==
    /\ loadPc = "getAttendees"
    /\ \E rejected \in BOOLEAN :
          LET found == IF rejected THEN {}
                       ELSE IF ld.qr THEN GroupAttendeesQuery(ld.event, ld.group)
                       ELSE EventAttendeesQuery(ld.event) IN
          \E rows \in OrderedByName(found) :
             IF ld.qr THEN LoadGroupRows(rows) ELSE LoadSucceeded(rows)
    /\ UNCHANGED <<eventId, activeQrData, isQRMode, showScanner, isSaving>>
    /\ UNCHANGED <<storeVars, savePc, sv, adminVars, importVars, toolVars>>

\* The 'Try Again' button of the error view.
TryAgain ==
    /\ ~loading /\ error # NULL /\ loadPc = "idle"
    /\ LoadStart(activeQrData)
    /\ UNCHANGED <<eventId, activeQrData, attendees, originalAttendees, showScanner,
                   hasUnsavedChanges, isSaving>>
    /\ UNCHANGED <<storeVars, saveVars, adminVars, importVars, toolVars>>

\* The 'Continue Scanning' button.
ContinueScanning ==
    /\ MainView /\ ~showScanner
    /\ showScanner' = TRUE
    /\ UNCHANGED <<eventId, activeQrData, attendees, originalAttendees, loading, error,
                   isQRMode, hasUnsavedChanges, isSaving, loadPc, ld>>
    /\ UNCHANGED <<storeVars, saveVars, adminVars, importVars, toolVars>>

\* handleInlineQRScanSuccess, and the effect on [eventId, activeQrData] that
\* runs loadEventData when the payload differs from the active one.
HandleInlineQRScanSuccess(raw) ==
    /\ MainView /\ showScanner /\ loadPc = "idle"
    /\ showScanner' = FALSE
    /\ activeQrData' = raw
    /\ IF raw # activeQrData
       THEN LoadStart(raw)
       ELSE UNCHANGED <<isQRMode, loading, error, loadPc, ld>>
    /\ UNCHANGED <<eventId, attendees, originalAttendees, hasUnsavedChanges, isSaving>>
    /\ UNCHANGED <<storeVars, saveVars, adminVars, importVars, toolVars>>


\* ------------------------------------- attendance page: local operations
ToggleRow(a, t) ==
    [a EXCEPT !.is_attending = ~a.is_attending,
              !.checked_in_at = IF ~a.is_attending THEN t ELSE NullTime,
              !.checked_in_by = IF ~a.is_attending THEN StaffName ELSE NULL]

PresentRow(a, t) ==
    [a EXCEPT !.is_attending = TRUE, !.checked_in_at = t, !.checked_in_by = StaffName]

AbsentRow(a) ==
    [a EXCEPT !.is_attending = FALSE, !.checked_in_at = NullTime, !.checked_in_by = NULL]

ToggleList(q, id, t) ==
    [i \in 1..Len(q) |-> IF q[i].id = id THEN ToggleRow(q[i], t) ELSE q[i]]

MarkAllListUnguarded(q, t) == [i \in 1..Len(q) |-> PresentRow(q[i], t)]

MarkAllList(q, t) ==
    IF \E i \in 1..Len(q) : ~q[i].is_attending
    THEN [i \in 1..Len(q) |-> PresentRow(q[i], t)]
    ELSE q

ClearAllList(q) ==
    IF \E i \in 1..Len(q) : q[i].is_attending
    THEN [i \in 1..Len(q) |-> AbsentRow(q[i])]
    ELSE q

LocalFrame ==
    /\ UNCHANGED <<eventId, activeQrData, originalAttendees, loading, error, isQRMode,
                   showScanner, isSaving, loadPc, ld>>
    /\ UNCHANGED <<storeVars, savePc, sv, adminVars, importVars, toolVars>>

\* The checkbox of a listed attendee.
ToggleAttendance(id) ==
    /\ MainView
    /\ id \in IdSet(attendees)
    /\ attendees' = ToggleList(attendees, id, now)
    /\ hasUnsavedChanges' = TRUE
    /\ SaveRecordAfterChange(FALSE)
    /\ LocalFrame

MarkAllPresent ==
    /\ MainView
    /\ attendees' = MarkAllList(attendees, now)
    /\ hasUnsavedChanges' =
          (IF \E i \in 1..Len(attendees) : ~attendees[i].is_attending
           THEN TRUE ELSE hasUnsavedChanges)
    /\ IF attendees' # attendees
       THEN SaveRecordAfterChange(FALSE)
       ELSE UNCHANGED <<saveCalls, saveResult, loadedSince, touched>>
    /\ LocalFrame

ClearAll ==
    /\ MainView
    /\ attendees' = ClearAllList(attendees)
    /\ hasUnsavedChanges' =
          (IF \E i \in 1..Len(attendees) : attendees[i].is_attending
           THEN TRUE ELSE hasUnsavedChanges)
    /\ IF attendees' # attendees
       THEN SaveRecordAfterChange(FALSE)
       ELSE UNCHANGED <<saveCalls, saveResult, loadedSince, touched>>
    /\ LocalFrame

\* ------------------------------------------------- attendance page: Save
\* attendees.filter((current, index) => original && current.is_attending
\*                                      !== original.is_attending)
ChangedAttendees(att, orig) ==
    Filter(att, {index \in 1..Len(att) :
                    /\ index <= Len(orig)
                    /\ att[index].is_attending # orig[index].is_attending})

ToMarkPresent(changed) ==
    IdsOf(Filter(changed, {i \in 1..Len(changed) : changed[i].is_attending}))

ToMarkAbsent(changed) ==
    IdsOf(Filter(changed, {i \in 1..Len(changed) : ~changed[i].is_attending}))

NoSave == [attendees |-> <<>>, originalAttendees |-> <<>>,
           toMarkPresent |-> <<>>, toMarkAbsent |-> <<>>]

Call(ids, flag, ok) == [ids |-> ids, flag |-> flag, ok |-> ok]

\* setOriginalAttendees([...attendees]) with the attendees of the render that
\* invoked the save; setHasUnsavedChanges(false); finally.
SaveSucceeded ==
    /\ originalAttendees' = sv.attendees
    /\ hasUnsavedChanges' = FALSE
    /\ isSaving' = FALSE
    /\ savePc' = "idle"
    /\ sv' = NoSave
    /\ saveResult' = "saved"

SaveRejectedClearsDirty ==
    /\ isSaving' = FALSE
    /\ savePc' = "idle"
    /\ sv' = NoSave
    /\ saveResult' = "rejected"
    /\ hasUnsavedChanges' = FALSE
    /\ UNCHANGED originalAttendees

\* throw new Error('Failed to save some attendance changes'); catch; finally.
SaveRejected ==
    /\ isSaving' = FALSE
    /\ savePc' = "idle"
    /\ sv' = NoSave
    /\ saveResult' = "rejected"
    /\ UNCHANGED <<originalAttendees, hasUnsavedChanges>>

\* What follows a present batch the store accepted.
AfterPresentAccepted ==
    IF Len(sv.toMarkAbsent) > 0
    THEN /\ savePc' = "absent"
         /\ UNCHANGED <<originalAttendees, hasUnsavedChanges, isSaving, sv, saveResult>>
    ELSE SaveSucceeded

\* The 'Save Changes' button: saveAttendance up to its first await.
SaveAttendance ==
    /\ MainView /\ ~isSaving /\ savePc = "idle"
    /\ saveCalls' = <<>>
    /\ loadedSince' = FALSE
    /\ touched' = FALSE
    /\ IF ~hasUnsavedChanges
       THEN /\ saveResult' = "clean"
            /\ UNCHANGED <<hasUnsavedChanges, isSaving, savePc, sv>>
       ELSE LET changed == ChangedAttendees(attendees, originalAttendees) IN
            IF Len(changed) = 0
            THEN /\ hasUnsavedChanges' = FALSE
                 /\ saveResult' = "nochange"
                 /\ UNCHANGED <<isSaving, savePc, sv>>
            ELSE /\ isSaving' = TRUE
                 /\ sv' = [attendees |-> attendees,
                           originalAttendees |-> originalAttendees,
                           toMarkPresent |-> ToMarkPresent(changed),
                           toMarkAbsent |-> ToMarkAbsent(changed)]
                 /\ savePc' = IF Len(ToMarkPresent(changed)) > 0
                              THEN "present" ELSE "absent"
                 /\ saveResult' = "running"
                 /\ UNCHANGED hasUnsavedChanges
    /\ UNCHANGED <<eventId, activeQrData, attendees, originalAttendees, loading, error,
                   isQRMode, showScanner, loadPc, ld>>
    /\ UNCHANGED <<storeVars, adminVars, importVars, toolVars>>

SaveFrame ==
    /\ UNCHANGED <<eventId, activeQrData, attendees, loading, error, isQRMode,
                   showScanner, loadPc, ld>>
    /\ UNCHANGED <<dbEvents, dbGroups, now, loadedSince, touched, adminVars, importVars, toolVars>>

\* markAttendance(toMarkPresent, true, staffName) returns.
SavePresentReturns ==
    /\ savePc = "present"
    /\ \E ok \in BOOLEAN :
          /\ saveCalls' = Append(saveCalls, Call(sv.toMarkPresent, TRUE, ok))
          /\ IF ok
             THEN /\ dbAttendees' = MarkAttendanceUpdate(dbAttendees, sv.toMarkPresent,
                                                         TRUE, StaffName, now)
                  /\ AfterPresentAccepted
             ELSE /\ UNCHANGED dbAttendees
                  /\ SaveRejected
    /\ SaveFrame

\* markAttendance(toMarkAbsent, false, '') returns.
SaveAbsentReturns ==
    /\ savePc = "absent"
    /\ \E ok \in BOOLEAN :
          /\ saveCalls' = Append(saveCalls, Call(sv.toMarkAbsent, FALSE, ok))
          /\ IF ok
             THEN /\ dbAttendees' = MarkAttendanceUpdate(dbAttendees, sv.toMarkAbsent,
                                                         FALSE, "", now)
                  /\ SaveSucceeded
             ELSE /\ UNCHANGED dbAttendees
                  /\ SaveRejected
    /\ SaveFrame

\* ------------------------------------------------------- the environment
Tick ==
    /\ now < MaxClock
    /\ now' = now + 1
    /\ UNCHANGED <<dbEvents, dbGroups, dbAttendees, pageVars, saveVars, adminVars, importVars, toolVars>>

\* Another staff session's markAttendance on one row.
OtherSessionWrite(id, flag) ==
    /\ id \in DOMAIN dbAttendees
    /\ dbAttendees' = MarkAttendanceUpdate(dbAttendees, <<id>>, flag, OtherStaff, now)
    /\ UNCHANGED <<dbEvents, dbGroups, now, pageVars, saveVars, adminVars, importVars, toolVars>>

\* --------------------------------------------- data layer: guests, groups
MaxGroups == 2         \* group rows a run inserts
MaxAttendees == 2      \* attendee rows a run inserts

GroupIdPool == <<"g1", "g2", "g3", "g4", "g5", "g6">>
AttendeeIdPool == <<"a1", "a2", "a3", "a4", "a5", "a6">>

\* The people an administrator enters.
Guests == { [name |-> "Ann", email |-> "ann@x.io"],
            [name |-> Sentinel, email |-> "new@x.io"] }

GuestData == [name : {"Ann", Sentinel}, email : {"ann@x.io", "new@x.io"},
              groupName : {"Ann", Sentinel}, isPresent : BOOLEAN]

GuestInputs ==
    {d \in GuestData : [name |-> d.name, email |-> d.email] \in Guests}

NoGroup == GroupRow(NULL, NULL, NULL, NULL)

GroupsNamedInAnyEvent(e, n) == {g \in Rows(dbGroups) : g.name = n}

GroupsNamed(e, n) == {g \in Rows(dbGroups) : g.event_id = e /\ g.name = n}

\* .single(): the row when exactly one matches; otherwise data is null and
\* the error is PGRST116, for no row and for several rows alike.
\* .maybeSingle(): null without an error for no row, an error for several.
\* findGroupByName: null on PGRST116 and on any other error.
FindGroupByName(e, n, rejected) ==
    IF ~rejected /\ Cardinality(GroupsNamed(e, n)) = 1
    THEN CHOOSE g \in GroupsNamed(e, n) : TRUE
    ELSE NoGroup

\* insert into groups ... .select().single()
InsertGroup(e, n, m) ==
    LET id == GroupIdPool[nextGroupId + 1] IN
    /\ dbGroups' = dbGroups @@ (id :> GroupRow(id, e, n, m))
    /\ nextGroupId' = nextGroupId + 1

\* insert into attendees: the foreign keys must reference rows.
AttendeeInsertAccepted(e, g) == e \in dbEvents /\ g \in DOMAIN dbGroups

InsertAttendee(e, g, n, m, f) ==
    LET id == AttendeeIdPool[nextAttendeeId + 1] IN
    /\ dbAttendees' = dbAttendees @@
                         (id :> AttendeeRow(id, e, g, n, m, f, NullTime, NULL))
    /\ nextAttendeeId' = nextAttendeeId + 1

AgIdle == [pc |-> "idle", eventId |-> NULL, guestData |-> NULL, groupId |-> NULL]

AgRecord(e, d, looked, matches, rejected, created, outcome, attendee) ==
    [eventId |-> e, guestData |-> d, lookedUp |-> looked, matches |-> matches,
     rejected |-> rejected, createdGroup |-> created, outcome |-> outcome,
     attendee |-> attendee]

NoAgRecord == [outcome |-> "none"]

AdminFrame ==
    /\ UNCHANGED <<dbEvents, now, pageVars, saveVars, importVars, toolVars>>

\* While a findOrCreateGroup caller is between its lookup and its insert, a
\* group row of its event and name inserted by anyone else makes its lookup
\* stale.
FocAfterOtherInsert(c, e, n) ==
    [k \in DOMAIN foc |->
        IF k # c /\ foc[k].pc = "insert" /\ foc[k].eventId = e /\ foc[k].groupName = n
        THEN [foc[k] EXCEPT !.interleaved = TRUE]
        ELSE foc[k]]

\* guestData.groupName === 'CREATE_NEW_GROUP'
CreatesNewGroupNever(d) == FALSE

CreatesNewGroup(d) == d.groupName = Sentinel

\* addGuest from its first line to the attendee insert: createGroup for the
\* sentinel, findGroupByName otherwise; a null result is thrown and caught.
AddGuestResolve(e, d) ==
    /\ ag.pc = "idle"
    /\ nextAttendeeId < MaxAttendees
    /\ \E rejected \in BOOLEAN :
          IF CreatesNewGroup(d)
          THEN IF rejected \/ e \notin dbEvents
               THEN /\ agLast' = AgRecord(e, d, FALSE, 0, TRUE, NULL, "null", NULL)
                    /\ UNCHANGED <<dbGroups, nextGroupId, ag, foc>>
               ELSE /\ nextGroupId < MaxGroups
                    /\ InsertGroup(e, d.name, d.email)
                    /\ ag' = [pc |-> "insert", eventId |-> e, guestData |-> d,
                              groupId |-> GroupIdPool[nextGroupId + 1]]
                    /\ agLast' = AgRecord(e, d, FALSE, 0, FALSE,
                                          GroupIdPool[nextGroupId + 1], "running", NULL)
                    /\ foc' = FocAfterOtherInsert(0, e, d.name)
          ELSE LET g == FindGroupByName(e, d.groupName, rejected)
                   n == Cardinality(GroupsNamed(e, d.groupName)) IN
               /\ IF g = NoGroup
                  THEN /\ agLast' = AgRecord(e, d, TRUE, n, rejected, NULL, "null", NULL)
                       /\ UNCHANGED ag
                  ELSE /\ ag' = [pc |-> "insert", eventId |-> e, guestData |-> d,
                                 groupId |-> g.id]
                       /\ agLast' = AgRecord(e, d, TRUE, n, FALSE, NULL, "running", NULL)
               /\ UNCHANGED <<dbGroups, nextGroupId, foc>>
    /\ UNCHANGED <<dbAttendees, nextAttendeeId>>
    /\ AdminFrame

\* The attendee insert of addGuest returns.
AddGuestInsert ==
    /\ ag.pc = "insert"
    /\ \E rejected \in BOOLEAN :
          IF ~rejected /\ AttendeeInsertAccepted(ag.eventId, ag.groupId)
          THEN /\ InsertAttendee(ag.eventId, ag.groupId, ag.guestData.name,
                                 ag.guestData.email, ag.guestData.isPresent)
               /\ agLast' = [agLast EXCEPT !.outcome = "ok",
                                           !.attendee = AttendeeIdPool[nextAttendeeId + 1]]
          ELSE /\ agLast' = [agLast EXCEPT !.outcome = "null", !.rejected = TRUE]
               /\ UNCHANGED <<dbAttendees, nextAttendeeId>>
    /\ ag' = AgIdle
    /\ UNCHANGED <<dbGroups, nextGroupId, foc>>
    /\ AdminFrame

\* The fields updateGuest copies when they are defined.
GuestUpdates ==
    { [name |-> NULL, email |-> NULL, groupId |-> NULL, setPresent |-> TRUE,
       isPresent |-> TRUE],
      [name |-> NULL, email |-> NULL, groupId |-> NULL, setPresent |-> TRUE,
       isPresent |-> FALSE],
      [name |-> "Bob", email |-> "bob@x.io", groupId |-> NULL, setPresent |-> FALSE,
       isPresent |-> FALSE],
      [name |-> NULL, email |-> NULL, groupId |-> "g1", setPresent |-> FALSE,
       isPresent |-> FALSE] }

\* The calls of updateGuest a run makes: each update under the row's event,
\* one under another event.
UpdateCalls ==
    {[eventId |-> "e1", updates |-> u] : u \in GuestUpdates} \cup
    {[eventId |-> "e2", updates |-> u] :
        u \in {v \in GuestUpdates : v.setPresent /\ v.isPresent}}

UpdatedGuestRow(r, u) ==
    [r EXCEPT !.name = IF u.name # NULL THEN u.name ELSE @,
              !.email = IF u.email # NULL THEN u.email ELSE @,
              !.group_id = IF u.groupId # NULL THEN u.groupId ELSE @,
              !.is_attending = IF u.setPresent THEN u.isPresent ELSE @]

\* updateGuest: one update of the row with that id and event; a group_id
\* that references no group is rejected by the store.
UpdateGuest(e, id, u) ==
    /\ id \in DOMAIN dbAttendees
    /\ \E rejected \in BOOLEAN :
          IF /\ ~rejected
             /\ dbAttendees[id].event_id = e
             /\ (u.groupId # NULL => u.groupId \in DOMAIN dbGroups)
          THEN dbAttendees' = [dbAttendees EXCEPT ![id] = UpdatedGuestRow(@, u)]
          ELSE UNCHANGED dbAttendees
    /\ UNCHANGED <<dbGroups, nextGroupId, nextAttendeeId, ag, agLast, foc>>
    /\ AdminFrame

\* ------------------------------------------ data layer: findOrCreateGroup
FocCallers == {1, 2, 3}

FocIdle == [pc |-> "idle", eventId |-> NULL, groupName |-> NULL, contactEmail |-> NULL,
            result |-> NULL, inserted |-> FALSE, interleaved |-> FALSE]

FocLookupBlind(c, e, n, m) ==
    /\ foc[c].pc = "idle"
    /\ foc' = [foc EXCEPT ![c] = [FocIdle EXCEPT !.pc = "insert", !.eventId = e,
                                                  !.groupName = n, !.contactEmail = m]]
    /\ UNCHANGED <<dbGroups, dbAttendees, nextGroupId, nextAttendeeId, ag, agLast>>
    /\ AdminFrame

\* findOrCreateGroup up to the insert: the maybeSingle lookup.
FocLookup(c, e, n, m) ==
    /\ foc[c].pc = "idle"
    /\ \E rejected \in BOOLEAN :
          LET found == GroupsNamed(e, n) IN
          IF rejected \/ Cardinality(found) > 1
          THEN foc' = [foc EXCEPT ![c] = [FocIdle EXCEPT !.pc = "done", !.eventId = e,
                                                         !.groupName = n,
                                                         !.contactEmail = m]]
          ELSE IF Cardinality(found) = 1
          THEN foc' = [foc EXCEPT ![c] =
                          [FocIdle EXCEPT !.pc = "done", !.eventId = e, !.groupName = n,
                                          !.contactEmail = m,
                                          !.result = (CHOOSE g \in found : TRUE).id]]
          ELSE foc' = [foc EXCEPT ![c] = [FocIdle EXCEPT !.pc = "insert", !.eventId = e,
                                                         !.groupName = n,
                                                         !.contactEmail = m]]
    /\ UNCHANGED <<dbGroups, dbAttendees, nextGroupId, nextAttendeeId, ag, agLast>>
    /\ AdminFrame

\* findOrCreateGroup from the insert on.
FocInsert(c) ==
    /\ foc[c].pc = "insert"
    /\ \E rejected \in BOOLEAN :
          IF rejected \/ foc[c].eventId \notin dbEvents
          THEN /\ foc' = [foc EXCEPT ![c].pc = "done"]
               /\ UNCHANGED <<dbGroups, nextGroupId>>
          ELSE /\ nextGroupId < MaxGroups
               /\ InsertGroup(foc[c].eventId, foc[c].groupName, foc[c].contactEmail)
               /\ foc' = [FocAfterOtherInsert(c, foc[c].eventId, foc[c].groupName) EXCEPT
                             ![c].pc = "done",
                             ![c].inserted = TRUE,
                             ![c].result = GroupIdPool[nextGroupId + 1]]
    /\ UNCHANGED <<dbAttendees, nextAttendeeId, ag, agLast>>
    /\ AdminFrame

\* ------------------------------------------ data layer: bulkImportAttendees
\* Property names every object literal inherits: acc[groupName] is truthy
\* for them before anything was stored under the name.
ProtoKeys == {"constructor"}

ErrBulkFailed == "Failed to process bulk import"
ErrGroup(n) == <<"Failed to create or find group", n>>
ErrInsert(n) == <<"Failed to import attendees for group", n>>

BiIdle == [pc |-> "idle", eventId |-> NULL, input |-> <<>>, names |-> <<>>, k |-> 0,
           groupId |-> NULL, successCount |-> 0, errors |-> <<>>,
           lookups |-> <<>>, created |-> {}, inserted |-> {}, rejected |-> FALSE]

ExIdle == [guests |-> <<>>, csv |-> <<>>, made |-> FALSE]
DeIdle == [pc |-> "idle", eventId |-> NULL, result |-> NULL, had |-> {}]
NoSession == [present |-> FALSE, user |-> NULL, provider |-> NULL, provider_token |-> NULL]
NoAuthStep == [kind |-> "none", event |-> NULL, session |-> NoSession]
AuthSignedOut ==
    [user |-> NULL, microsoftAccessToken |-> NULL, stored |-> NULL, getSession |-> FALSE,
     last |-> NoAuthStep, mail |-> "none"]
NoSearch == <<>>
RtClosed == [pc |-> "closed", local |-> <<>>, calls |-> <<>>]

DlgClosed == [open |-> FALSE, parsedData |-> <<>>, errors |-> <<>>, isLoading |-> FALSE,
              file |-> 0, reading |-> 0, sent |-> <<>>]

\* Object.entries(groupedAttendees): the distinct group names in the order of
\* their first row.
GroupNamesOf(input) ==
    LET F[i \in 0..Len(input)] ==
            IF i = 0 THEN <<>>
            ELSE IF \E j \in 1..Len(F[i - 1]) : F[i - 1][j] = input[i].groupName
                 THEN F[i - 1]
                 ELSE Append(F[i - 1], input[i].groupName)
    IN F[Len(input)]

\* groupedAttendees[groupName]
GroupAttendeesOf(input, n) ==
    Filter(input, {i \in 1..Len(input) : input[i].groupName = n})

\* The end of one iteration of the for loop.
BiNextGroup(b) ==
    IF b.k < Len(b.names)
    THEN [b EXCEPT !.k = b.k + 1, !.pc = "lookup", !.groupId = NULL]
    ELSE [b EXCEPT !.pc = "done", !.groupId = NULL]

BulkFrame ==
    /\ UNCHANGED <<dbEvents, now, pageVars, saveVars, ag, agLast, dlg, toolVars>>

\* bulkImportAttendees up to the first findOrCreateGroup: the reduce that
\* groups the rows. A row whose group name is an inherited property name
\* makes push fail, and the outer catch returns.
BulkStarted(e, input) ==
    IF \E i \in 1..Len(input) : input[i].groupName \in ProtoKeys
    THEN [BiIdle EXCEPT !.pc = "done", !.eventId = e, !.input = input,
                        !.errors = <<ErrBulkFailed>>]
    ELSE IF Len(input) = 0
    THEN [BiIdle EXCEPT !.pc = "done", !.eventId = e]
    ELSE [BiIdle EXCEPT !.pc = "lookup", !.eventId = e, !.input = input,
                        !.names = GroupNamesOf(input), !.k = 1]

BulkStart(e, input) ==
    /\ bi.pc \in {"idle", "done"}
    /\ nextAttendeeId + Len(input) <= MaxAttendees
    /\ bi' = BulkStarted(e, input)
    /\ UNCHANGED <<dbGroups, dbAttendees, nextGroupId, nextAttendeeId, foc>>
    /\ BulkFrame

\* findOrCreateGroup of the current group: the maybeSingle lookup returns.
BulkLookup ==
    /\ bi.pc = "lookup"
    /\ LET n == bi.names[bi.k]
           found == GroupsNamed(bi.eventId, n)
           b == [bi EXCEPT !.lookups = Append(@, n)] IN
       \E rejected \in BOOLEAN :
          bi' = IF rejected \/ Cardinality(found) > 1
                THEN BiNextGroup([b EXCEPT !.errors = Append(@, ErrGroup(n)),
                                           !.rejected = @ \/ rejected])
                ELSE IF Cardinality(found) = 1
                THEN [b EXCEPT !.pc = "insert",
                               !.groupId = (CHOOSE g \in found : TRUE).id]
                ELSE [b EXCEPT !.pc = "create"]
    /\ UNCHANGED <<dbGroups, dbAttendees, nextGroupId, nextAttendeeId, foc>>
    /\ BulkFrame

\* findOrCreateGroup of the current group: the group insert returns.
BulkCreate ==
    /\ bi.pc = "create"
    /\ LET n == bi.names[bi.k]
           m == GroupAttendeesOf(bi.input, n)[1].email IN
       \E rejected \in BOOLEAN :
          IF rejected \/ bi.eventId \notin dbEvents
          THEN /\ bi' = BiNextGroup([bi EXCEPT !.errors = Append(@, ErrGroup(n)),
                                               !.rejected = TRUE])
               /\ UNCHANGED <<dbGroups, nextGroupId, foc>>
          ELSE /\ nextGroupId < MaxGroups
               /\ InsertGroup(bi.eventId, n, m)
               /\ bi' = [bi EXCEPT !.pc = "insert",
                                   !.groupId = GroupIdPool[nextGroupId + 1],
                                   !.created = @ \cup {GroupIdPool[nextGroupId + 1]}]
               /\ foc' = FocAfterOtherInsert(0, bi.eventId, n)
    /\ UNCHANGED <<dbAttendees, nextAttendeeId>>
    /\ BulkFrame

\* The rows one insert call adds for the attendees of a group.
BulkRows(e, g, rows, first) ==
    [id \in {AttendeeIdPool[first + i] : i \in 1..Len(rows)} |->
        LET i == CHOOSE j \in 1..Len(rows) : AttendeeIdPool[first + j] = id IN
        AttendeeRow(id, e, g, rows[i].name, rows[i].email, FALSE, NullTime, NULL)]

\* The attendee insert of the current group returns.
BulkInsert ==
    /\ bi.pc = "insert"
    /\ LET n == bi.names[bi.k]
           rows == GroupAttendeesOf(bi.input, n) IN
       \E rejected \in BOOLEAN :
          IF ~rejected /\ AttendeeInsertAccepted(bi.eventId, bi.groupId)
          THEN /\ nextAttendeeId + Len(rows) <= MaxAttendees
               /\ dbAttendees' = dbAttendees @@
                                    BulkRows(bi.eventId, bi.groupId, rows, nextAttendeeId)
               /\ nextAttendeeId' = nextAttendeeId + Len(rows)
               /\ bi' = BiNextGroup(
                           [bi EXCEPT !.successCount = @ + Len(rows),
                                      !.inserted = @ \cup
                                         {AttendeeIdPool[nextAttendeeId + i] :
                                             i \in 1..Len(rows)}])
          ELSE /\ bi' = BiNextGroup([bi EXCEPT !.errors = Append(@, ErrInsert(n)),
                                               !.rejected = TRUE])
               /\ UNCHANGED <<dbAttendees, nextAttendeeId>>
    /\ UNCHANGED <<dbGroups, nextGroupId, foc>>
    /\ BulkFrame

\* ---------------------------------------------------------- specification
\* The roster of the attendance runs: event e1 with group g1 (a1), group g2
\* (a2, checked in by another session) and the empty group g3; event e2.
RosterIds == {"a1", "a2"}

InitStore ==
    /\ dbEvents = {"e1", "e2"}
    /\ dbGroups = [g \in {"g1", "g2", "g3"} |->
                      GroupRow(g, "e1",
                               CASE g = "g1" -> "Ann" [] g = "g2" -> "Cy" [] OTHER -> "Bob",
                               "x@y.z")]
    /\ dbAttendees =
          [a \in RosterIds |->
              IF a = "a1"
              THEN AttendeeRow(a, "e1", "g1", "Ann", "x@y.z", FALSE, NullTime, NULL)
              ELSE AttendeeRow(a, "e1", "g2", "Cy", "x@y.z", TRUE, 1, OtherStaff)]
    /\ now = 1

\* The page as constructed by App: with the selected event or with the
\* scanned payload, the first effect pending.
InitPage ==
    /\ \/ eventId = "e1" /\ activeQrData = NoQr
       \/ eventId = NoEvent /\ activeQrData \in ScannedPayloads
    /\ attendees = <<>>
    /\ originalAttendees = <<>>
    /\ loading = TRUE
    /\ error = NULL
    /\ isQRMode = FALSE
    /\ showScanner = FALSE
    /\ hasUnsavedChanges = FALSE
    /\ isSaving = FALSE
    /\ loadPc = "mount"
    /\ ld = NoLoad
    /\ savePc = "idle"
    /\ sv = NoSave
    /\ saveCalls = <<>>
    /\ saveResult = "none"
    /\ loadedSince = FALSE
    /\ touched = FALSE

InitAdmin ==
    /\ ag = AgIdle
    /\ agLast = NoAgRecord
    /\ foc = [c \in FocCallers |-> FocIdle]
    /\ bi = BiIdle
    /\ dlg = DlgClosed

InitTools ==
    /\ ex = ExIdle
    /\ de = DeIdle
    /\ auth = AuthSignedOut
    /\ searchTerm = NoSearch
    /\ rt = RtClosed

Init ==
    InitStore /\ InitPage /\ InitAdmin /\ InitTools /\ nextGroupId = 3 /\ nextAttendeeId = 2

Next ==
    \/ Mount
    \/ LoadGetEvent
    \/ LoadGetAttendees
    \/ TryAgain
    \/ ContinueScanning
    \/ \E raw \in InlinePayloads : HandleInlineQRScanSuccess(raw)
    \/ \E id \in RosterIds : ToggleAttendance(id)
    \/ MarkAllPresent
    \/ ClearAll
    \/ SaveAttendance
    \/ SavePresentReturns
    \/ SaveAbsentReturns
    \/ \E id \in RosterIds, flag \in BOOLEAN : OtherSessionWrite(id, flag)

Spec == Init /\ [][Next]_vars


\* The administrator's runs: events e1 and e2 with no groups and no
\* attendees yet; the attendance page is not open.
InitAdminStore ==
    /\ dbEvents = {"e1", "e2"}
    /\ dbGroups = <<>>
    /\ dbAttendees = <<>>
    /\ now = 1
    /\ nextGroupId = 0
    /\ nextAttendeeId = 0

PageClosed ==
    /\ eventId = NoEvent
    /\ activeQrData = NoQr
    /\ attendees = <<>>
    /\ originalAttendees = <<>>
    /\ loading = TRUE
    /\ error = NULL
    /\ isQRMode = FALSE
    /\ showScanner = FALSE
    /\ hasUnsavedChanges = FALSE
    /\ isSaving = FALSE
    /\ loadPc = "closed"
    /\ ld = NoLoad
    /\ savePc = "idle"
    /\ sv = NoSave
    /\ saveCalls = <<>>
    /\ saveResult = "none"
    /\ loadedSince = FALSE
    /\ touched = FALSE

InitAdminSpec == InitAdminStore /\ PageClosed /\ InitAdmin /\ InitTools

NextAdmin ==
    \/ \E d \in GuestInputs : AddGuestResolve("e1", d)
    \/ AddGuestInsert
    \/ \E id \in {"a1", "a2"}, c \in UpdateCalls : UpdateGuest(c.eventId, id, c.updates)

SpecAdmin == InitAdminSpec /\ [][NextAdmin]_vars

\* The callers of findOrCreateGroup, each resolving one group of e1 or e2,
\* on the same store.
NextGroups ==
    \/ \E c \in FocCallers, e \in {"e1", "e2"}, g \in Guests :
          FocLookup(c, e, g.name, g.email)
    \/ \E c \in FocCallers : FocInsert(c)

SpecGroups == InitAdminSpec /\ [][NextGroups]_vars

\* ------------------------------------------------------------- properties
HasRow(q, id) == \E j \in 1..Len(q) : q[j].id = id
RowOf(q, id) == q[CHOOSE j \in 1..Len(q) : q[j].id = id]
SeqSet(q) == {q[k] : k \in 1..Len(q)}

\* The attendees whose working flag is true and whose baseline flag is false.
NowPresent(att, orig) ==
    {att[i].id : i \in {k \in 1..Len(att) :
        /\ att[k].is_attending
        /\ HasRow(orig, att[k].id)
        /\ ~RowOf(orig, att[k].id).is_attending}}

\* The attendees whose working flag is false and whose baseline flag is true.
NowAbsent(att, orig) ==
    {att[i].id : i \in {k \in 1..Len(att) :
        /\ ~att[k].is_attending
        /\ HasRow(orig, att[k].id)
        /\ RowOf(orig, att[k].id).is_attending}}

\* Every attendee of the working copy has a baseline row with the same flag.
SameFlags(att, orig) ==
    \A i \in 1..Len(att) :
        /\ HasRow(orig, att[i].id)
        /\ RowOf(orig, att[i].id).is_attending = att[i].is_attending

\* C1: saveAttendance issues at most two markAttendance calls, none with an
\* empty id set; the flag=true call carries exactly the attendees whose
\* working flag is true and baseline flag is false, the flag=false call
\* exactly those whose working flag is false and baseline flag is true; a
\* save that issues no call leaves no attendee whose working flag differs
\* from its baseline flag.
C1_SaveSendsTheDiff ==
    /\ Len(saveCalls) <= 2
    /\ \A k \in 1..Len(saveCalls) : Len(saveCalls[k].ids) > 0
    /\ savePc # "idle" =>
          /\ SeqSet(sv.toMarkPresent) = NowPresent(sv.attendees, sv.originalAttendees)
          /\ SeqSet(sv.toMarkAbsent) = NowAbsent(sv.attendees, sv.originalAttendees)
    /\ saveResult \in {"clean", "nochange"} =>
          /\ NowPresent(attendees, originalAttendees) = {}
          /\ NowAbsent(attendees, originalAttendees) = {}

\* C2: when saveAttendance has completed successfully the baseline equals the
\* working copy and the dirty flag is false; and whenever the dirty flag is
\* false and no save is in flight, every attendee's working flag equals its
\* baseline flag.
C2_CleanMeansSaved ==
    /\ saveResult = "saved" => originalAttendees = attendees /\ ~hasUnsavedChanges
    /\ (~hasUnsavedChanges /\ savePc = "idle") => SameFlags(attendees, originalAttendees)

\* C3: a rejected markAttendance batch ends the save leaving baseline, working
\* copy and dirty flag as they are (the dirty flag true unless a Load replaced
\* the lists while the save was in flight); the present batch goes first and
\* a rejected present batch is the only call; nothing retries by itself; the
\* next manual save sends the already-applied present batch again.
C3_RejectedInv ==
    saveResult = "rejected" =>
        /\ savePc = "idle" /\ ~isSaving
        /\ Len(saveCalls) \in {1, 2}
        /\ ~saveCalls[Len(saveCalls)].ok
        /\ Len(saveCalls) = 2 =>
              /\ saveCalls[1].flag /\ saveCalls[1].ok
              /\ ~saveCalls[2].flag
        /\ ~loadedSince => hasUnsavedChanges

C3_RejectedStep ==
    /\ (savePc # "idle" /\ saveResult' = "rejected") =>
          UNCHANGED <<attendees, originalAttendees, hasUnsavedChanges>>
    /\ (saveResult = "rejected" /\ ~SaveAttendance) => savePc' = "idle"
    /\ (saveResult = "rejected" /\ Len(saveCalls) = 2 /\ ~touched /\ SaveAttendance) =>
          /\ savePc' = "present"
          /\ sv'.toMarkPresent = saveCalls[1].ids

C3_RejectedSaveKeepsDirty == []C3_RejectedInv /\ [][C3_RejectedStep]_vars

C3_Witness ==
    /\ saveResult = "rejected" /\ Len(saveCalls) = 2
    /\ hasUnsavedChanges /\ ~touched

\* C4: a save started while every attendee's working flag equals its baseline
\* flag issues no markAttendance call.
C4_NetNoOpSavesNothing ==
    savePc # "idle" => ~SameFlags(sv.attendees, sv.originalAttendees)

\* C5: for every attendee row of the store and of the working copy,
\* checked_in_at and checked_in_by are both non-null exactly when
\* is_attending is true.
C5_CheckInFieldsFollowFlag ==
    \A r \in Rows(dbAttendees) \cup SeqSet(attendees) :
        (r.checked_in_at # NullTime /\ r.checked_in_by # NULL) <=> r.is_attending

\* A payload that is a JSON object whose group_id and event_id are non-empty
\* strings.
IsQrPayload(raw) ==
    LET p == JsonParse(raw) IN
    /\ p.ok
    /\ p.val.t = "obj"
    /\ \A key \in {"group_id", "event_id"} :
          GetProp(p.val, key).t = "str" /\ GetProp(p.val, key).s # ""

\* C6: Load goes on to its store calls only for a payload that is a JSON
\* object with non-empty string group_id and event_id; for any other payload
\* it has failed with the invalid-QR-format error.
C6_OnlyStringFieldsAccepted ==
    /\ (loadPc \in {"getEvent", "getAttendees"} /\ ld.qr) => IsQrPayload(activeQrData)
    /\ (loadPc = "idle" /\ activeQrData # NoQr /\ ~IsQrPayload(activeQrData)) =>
          error = ErrInvalidQr

\* C7: in QR mode the page never shows a loaded, empty working copy; a group
\* read that returns no attendee ends Load with the empty-group error and
\* leaves working copy, baseline and dirty flag as they were.
C7_ReadyInv == (MainView /\ isQRMode) => Len(attendees) > 0

C7_EmptyStep ==
    (/\ loadPc = "getAttendees" /\ ld.qr /\ loadPc' = "idle"
     /\ GroupAttendeesQuery(ld.event, ld.group) = {}) =>
        /\ error' = ErrEmptyGroup /\ ~loading'
        /\ UNCHANGED <<attendees, originalAttendees, hasUnsavedChanges>>

C7_EmptyGroupFails == []C7_ReadyInv /\ [][C7_EmptyStep]_vars

C7_Witness ==
    /\ error = ErrEmptyGroup /\ isQRMode /\ loadPc = "idle"
    /\ Len(attendees) > 0 /\ hasUnsavedChanges

\* C8: an addGuest with a group name other than the sentinel, whose store
\* calls are not rejected, resolves to an existing group of that name when
\* the event has at least one, and otherwise returns null having created
\* nothing.
C8_NamedGroupResolves ==
    (agLast.outcome # "none" /\ agLast.lookedUp /\ ~agLast.rejected) =>
        IF agLast.matches >= 1
        THEN /\ agLast.outcome \in {"running", "ok"}
             /\ ag.pc = "insert" =>
                   /\ ag.groupId \in DOMAIN dbGroups
                   /\ dbGroups[ag.groupId].name = ag.guestData.groupName
                   /\ dbGroups[ag.groupId].event_id = ag.eventId
        ELSE agLast.outcome = "null" /\ agLast.createdGroup = NULL

\* C9: an addGuest with the sentinel group name does no lookup; unless the
\* store rejects the insert it adds one group row with the guest's name and
\* email under the event, whatever groups exist, and the attendee it then
\* inserts references that row.
C9_ResolveStep ==
    \A d \in GuestInputs :
        (d.groupName = Sentinel /\ AddGuestResolve("e1", d)) =>
            /\ ~agLast'.lookedUp
            /\ IF agLast'.rejected
               THEN UNCHANGED dbGroups /\ agLast'.outcome = "null"
               ELSE \E id \in DOMAIN dbGroups' \ DOMAIN dbGroups :
                       /\ DOMAIN dbGroups' = DOMAIN dbGroups \cup {id}
                       /\ dbGroups'[id] = GroupRow(id, "e1", d.name, d.email)
                       /\ \A old \in DOMAIN dbGroups : dbGroups'[old] = dbGroups[old]
                       /\ ag'.groupId = id
                       /\ agLast'.createdGroup = id

C9_InsertStep ==
    (/\ ag.pc = "insert" /\ ag.guestData.groupName = Sentinel
     /\ AddGuestInsert /\ agLast'.outcome = "ok") =>
        /\ agLast'.attendee \in DOMAIN dbAttendees' \ DOMAIN dbAttendees
        /\ dbAttendees'[agLast'.attendee].group_id = agLast.createdGroup
        /\ agLast.createdGroup = ag.groupId

C9_SentinelAlwaysCreates == [][C9_ResolveStep /\ C9_InsertStep]_vars

C9_Witness ==
    /\ agLast.outcome = "ok"
    /\ agLast.guestData.groupName = Sentinel
    /\ Cardinality(GroupsNamed(agLast.eventId, agLast.guestData.name)) >= 2
    /\ dbAttendees[agLast.attendee].group_id = agLast.createdGroup

\* C10: two findOrCreateGroup callers that both looked up the same absent
\* (event, name) before either inserted leave two groups of that name; a
\* caller goes on to insert only after a lookup that found no group, and one
\* whose lookup-to-insert span saw no other insert of that name creates the
\* first group of the name, never a second.
C10_RaceInv ==
    /\ \A c1, c2 \in FocCallers :
          (/\ c1 # c2
           /\ foc[c1].pc = "done" /\ foc[c1].inserted
           /\ foc[c2].pc = "done" /\ foc[c2].inserted
           /\ foc[c1].eventId = foc[c2].eventId
           /\ foc[c1].groupName = foc[c2].groupName) =>
              Cardinality(GroupsNamed(foc[c1].eventId, foc[c1].groupName)) >= 2
    /\ \A c \in FocCallers :
          (foc[c].pc = "insert" /\ ~foc[c].interleaved) =>
              GroupsNamed(foc[c].eventId, foc[c].groupName) = {}

C10_Step ==
    \A c \in FocCallers :
        /\ (foc[c].pc = "idle" /\ foc'[c].pc = "insert") =>
              GroupsNamed(foc'[c].eventId, foc'[c].groupName) = {}
        /\ (foc[c].pc = "insert" /\ foc'[c].inserted) =>
              /\ Cardinality(GroupsNamed(foc[c].eventId, foc[c].groupName)') =
                    Cardinality(GroupsNamed(foc[c].eventId, foc[c].groupName)) + 1
              /\ ~foc[c].interleaved =>
                    GroupsNamed(foc[c].eventId, foc[c].groupName) = {}

C10_RaceMakesDuplicates == []C10_RaceInv /\ [][C10_Step]_vars

C10_Witness ==
    /\ \A c \in {1, 2} : foc[c].pc = "done" /\ foc[c].inserted
    /\ foc[1].eventId = foc[2].eventId /\ foc[1].groupName = foc[2].groupName
    /\ foc[2].interleaved /\ ~foc[1].interleaved
    /\ Cardinality(GroupsNamed(foc[1].eventId, foc[1].groupName)) = 2

\* ----------------------------------------------- imports over two events
BulkRow(n, m, g) == [name |-> n, email |-> m, groupName |-> g]

\* The attendee lists handed to bulkImportAttendees.
BulkInputs ==
    { <<BulkRow("Ann", "ann@x.io", "Ann")>>,
      <<BulkRow("Ann", "ann@x.io", "Team"), BulkRow("Bob", "bob@x.io", "Team")>>,
      <<BulkRow("Bob", "bob@x.io", "Team"), BulkRow("Ann", "ann@x.io", "Ann")>>,
      <<BulkRow("Ann", "ann@x.io", Sentinel)>>,
      <<BulkRow("Ann", "ann@x.io", "Team"), BulkRow("Bob", "bob@x.io", "constructor")>> }

\* The calls made over the two events: one guest added to a new or to a named
\* group, and lists with one group name.
ImportGuests == {d \in GuestInputs : d.name = "Ann" /\ ~d.isPresent}
ImportInputs == {input \in BulkInputs : GroupNamesOf(input) \in {<<"Ann">>, <<"Team">>}}

NextImport ==
    \/ \E e \in {"e1", "e2"}, d \in ImportGuests : AddGuestResolve(e, d)
    \/ AddGuestInsert
    \/ \E e \in {"e1", "e2"}, input \in ImportInputs : BulkStart(e, input)
    \/ BulkLookup
    \/ BulkCreate
    \/ BulkInsert

SpecImport == InitAdminSpec /\ [][NextImport]_vars

\* C11: every attendee row inserted by addGuest or bulkImportAttendees
\* references a group row, and that group's event is the attendee's event.
C11_GroupOfSameEvent ==
    \A a \in Rows(dbAttendees) :
        /\ a.group_id \in DOMAIN dbGroups
        /\ dbGroups[a.group_id].event_id = a.event_id

C11_Witness ==
    \E a, b \in Rows(dbAttendees) :
        /\ a.event_id = "e1" /\ b.event_id = "e2"
        /\ dbGroups[a.group_id].name = dbGroups[b.group_id].name
        /\ a.id \in bi.inserted
        /\ agLast.outcome = "ok" /\ agLast.attendee = b.id


\* C12: a scan delivered to a Ready session always starts Load with the
\* scanned payload (Load is running afterwards, or has already failed on an
\* unreadable payload), whether or not the payload equals the active one; no
\* unsaved change of the previous session survives the scan.
C12_ScanAlwaysReloads ==
    [][\A raw \in InlinePayloads :
          HandleInlineQRScanSuccess(raw) =>
             /\ loadPc' = "getEvent" \/ error' = ErrInvalidQr
             /\ loadPc' = "idle" => ~hasUnsavedChanges']_vars


\* C13: while the list of a loaded session is shown, the payload decides the
\* mode; in QR mode every row of the working copy belongs to the event and
\* group of the payload, and in manual mode the working copy is exactly the
\* attendees of the selected event; only a Load changes the ids in the
\* working copy.
C13_QrScope ==
    (MainView /\ loadPc = "idle" /\ activeQrData # NoQr) =>
       LET p == ParseQr(activeQrData) IN
       /\ isQRMode /\ p.ok
       /\ \A i \in 1..Len(attendees) :
             /\ p.event.t = "str" /\ attendees[i].event_id = p.event.s
             /\ p.group.t = "str" /\ attendees[i].group_id = p.group.s

C13_ManualScope ==
    (MainView /\ loadPc = "idle" /\ activeQrData = NoQr) =>
       /\ ~isQRMode
       /\ IdSet(attendees) =
             {r.id : r \in EventAttendeesQuery(JsVal("str", eventId, <<>>))}

C13_IdsStep == loadPc = "idle" => IdsOf(attendees') = IdsOf(attendees)

C13_WorkingCopyIsTheScope ==
    [](C13_QrScope /\ C13_ManualScope) /\ [][C13_IdsStep]_vars


\* The attendance page with the clock running: Load and the local
\* operations, no save.
NextLocal ==
    \/ Mount
    \/ LoadGetEvent
    \/ LoadGetAttendees
    \/ \E id \in RosterIds : ToggleAttendance(id)
    \/ MarkAllPresent
    \/ ClearAll
    \/ Tick

SpecLocal == Init /\ [][NextLocal]_vars

AllPresent(q) == \A i \in 1..Len(q) : q[i].is_attending
NonePresent(q) == \A i \in 1..Len(q) : ~q[i].is_attending

\* C14: markAllPresent applied to the result of markAllPresent, at the same
\* or a later time, returns that result unchanged; markAllPresent on an
\* all-present list and clearAll on a list with nobody present leave the
\* working copy and the dirty flag as they are.
C14_TwiceInv ==
    MainView =>
       \A t1 \in 1..MaxClock : \A t2 \in t1..MaxClock :
          /\ AllPresent(MarkAllList(attendees, t1))
          /\ MarkAllList(MarkAllList(attendees, t1), t2) = MarkAllList(attendees, t1)

C14_NoOpStep ==
    /\ (MarkAllPresent /\ AllPresent(attendees)) =>
          UNCHANGED <<attendees, hasUnsavedChanges>>
    /\ (ClearAll /\ NonePresent(attendees)) =>
          UNCHANGED <<attendees, hasUnsavedChanges>>

C14_MarkAllIdempotent == []C14_TwiceInv /\ [][C14_NoOpStep]_vars

\* Everybody was marked present by this session at one time, and the clock
\* has moved on since: a further markAllPresent would stamp a later time.
C14_Witness ==
    /\ MainView /\ Len(attendees) = 2 /\ hasUnsavedChanges
    /\ \A i \in 1..Len(attendees) :
          /\ attendees[i].is_attending
          /\ attendees[i].checked_in_by = StaffName
          /\ attendees[i].checked_in_at = 1
    /\ now > 1


\* ------------------------------ bulk import dialog: CSV text and parseCSV
\* A CSV text is the sequence of its words and of the characters that the
\* parser treats specially.
Nl == "\n"
Cr == "\r"
Comma == ","
Sp == " "
Quote == "\""
At == "@"
Dot == "."

IsSpace(c) == c \in {Sp, Cr, Nl}

\* String.prototype.toLowerCase on a word.
LowerWord(w) ==
    CASE w = "Name" -> "name"
      [] w = "EMAIL" -> "email"
      [] w = "Email" -> "email"
      [] w = "Attendance" -> "attendance"
      [] w = "Status" -> "status"
      [] w = "groupName" -> "groupname"
      [] w = "Group" -> "group"
      [] w = "groupId" -> "groupid"
      [] w = "Group_ID" -> "group_id"
      [] OTHER -> w

ToLowerCase(s) == [i \in 1..Len(s) |-> LowerWord(s[i])]

\* String.prototype.split on a separator character: the pieces between the
\* separators, empty pieces included.
SplitOn(s, sep) ==
    LET F[i \in 0..Len(s)] ==
            IF i = 0 THEN << <<>> >>
            ELSE LET pieces == F[i - 1] IN
                 IF s[i] = sep THEN Append(pieces, <<>>)
                 ELSE [pieces EXCEPT ![Len(pieces)] = Append(@, s[i])]
    IN F[Len(s)]

\* String.prototype.trim
Trim(s) ==
    LET keep == {i \in 1..Len(s) : ~IsSpace(s[i])} IN
    IF keep = {} THEN <<>>
    ELSE SubSeq(s, CHOOSE i \in keep : \A j \in keep : i <= j,
                   CHOOSE i \in keep : \A j \in keep : j <= i)

\* value.replace(/"/g, '')
StripQuotes(s) == Filter(s, {i \in 1..Len(s) : s[i] # Quote})

EmailRegexTestNoTld(s) ==
    \E a \in 1..Len(s) :
       /\ 1 < a /\ a < Len(s) /\ s[a] = At
       /\ \A i \in 1..Len(s) : i # a => (~IsSpace(s[i]) /\ s[i] # At)

\* /^[^\s@]+@[^\s@]+\.[^\s@]+$/.test(s)
EmailRegexTest(s) ==
    \E a \in 1..Len(s) : \E d \in 1..Len(s) :
       /\ 1 < a /\ a + 1 < d /\ d < Len(s)
       /\ s[a] = At /\ s[d] = Dot
       /\ \A i \in 1..Len(s) : i # a => (~IsSpace(s[i]) /\ s[i] # At)

\* The string value of a field: a word is its own value, and the longer
\* values that occur in accepted rows are named here.
TextOf(s) ==
    CASE Len(s) = 1 -> s[1]
      [] s = <<"ann", At, "x", Dot, "io">> -> "ann@x.io"
      [] s = <<"bob", At, "x", Dot, "io">> -> "bob@x.io"
      [] s = <<"ann", At, "x", Dot, "io", Dot, "uk">> -> "ann@x.io.uk"
      [] s = <<>> -> ""
      [] s = <<"Lee", Comma, Sp, "Ann">> -> "Lee, Ann"
      [] s = <<"Ann", Sp, Quote, "Annie", Quote>> -> "Ann \"Annie\""
      [] s = <<"Ann", Sp, "Annie">> -> "Ann Annie"
      [] s = <<"Team", Comma, "A">> -> "Team,A"
      [] OTHER -> "?"

\* csv.split('\n').filter(line => line.trim())
CsvLines(csv) ==
    LET all == SplitOn(csv, Nl) IN
    Filter(all, {i \in 1..Len(all) : Trim(all[i]) # <<>>})

\* lines[0].split(',').map(h => h.trim().toLowerCase())
HeadersOf(line) ==
    LET parts == SplitOn(line, Comma) IN
    [i \in 1..Len(parts) |-> ToLowerCase(Trim(parts[i]))]

\* lines[i].split(',').map(v => v.trim())
ValuesOf(line) ==
    LET parts == SplitOn(line, Comma) IN
    [i \in 1..Len(parts) |-> Trim(parts[i])]

\* The two copies of the dialog: requiredFields and the case labels of the
\* switch that set the group field.
GroupNameVariant ==
    [id |-> FALSE, requiredFields |-> <<"name", "email", "groupname">>,
     groupCases |-> {"groupname", "group_name", "group"}]
GroupIdVariant ==
    [id |-> TRUE, requiredFields |-> <<"name", "email", "groupid">>,
     groupCases |-> {"groupid", "group_id"}]

\* requiredFields.filter(field => !headers.includes(field))
MissingFields(headers, v) ==
    Filter(v.requiredFields,
           {k \in 1..Len(v.requiredFields) :
               ~\E i \in 1..Len(headers) : headers[i] = <<v.requiredFields[k]>>})

ErrTooShort == <<"CSV file must contain headers and at least one data row">>
ErrMissingColumns(missing) == <<"Missing required columns", missing>>
ErrRowMissing(n) == <<"Row", n, "Missing required fields">>
ErrRowEmail(n) == <<"Row", n, "Invalid email format">>

\* headers.forEach with the switch: the field set by the cases in cols is
\* the value under the last such header; <<>> stands for both the empty
\* string and a field that was never set.
GuestField(headers, values, cols) ==
    LET idx == {i \in 1..Len(headers) : \E c \in cols : headers[i] = <<c>>} IN
    IF idx = {} THEN <<>>
    ELSE Trim(StripQuotes(values[CHOOSE i \in idx : \A j \in idx : j <= i]))

GuestOf(name, email, group, v) ==
    IF v.id
    THEN [name |-> TextOf(name), email |-> TextOf(email), groupId |-> TextOf(group),
          isPresent |-> FALSE]
    ELSE [name |-> TextOf(name), email |-> TextOf(email), groupName |-> TextOf(group)]

\* The for loop over lines[1..]: line j of the non-blank lines (the header is
\* line 1) is skipped, reported as 'Row j' or pushed.
ParseRows(lines, headers, v) ==
    LET F[j \in 1..Len(lines)] ==
            IF j = 1 THEN [guests |-> <<>>, parseErrors |-> <<>>]
            ELSE LET values == ValuesOf(lines[j])
                     name == GuestField(headers, values, {"name"})
                     email == GuestField(headers, values, {"email"})
                     group == GuestField(headers, values, v.groupCases)
                     acc == F[j - 1] IN
                 IF Len(values) < Len(headers) THEN acc
                 ELSE IF name = <<>> \/ email = <<>> \/ group = <<>>
                 THEN [acc EXCEPT !.parseErrors = Append(@, ErrRowMissing(j))]
                 ELSE IF ~EmailRegexTest(email)
                 THEN [acc EXCEPT !.parseErrors = Append(@, ErrRowEmail(j))]
                 ELSE [acc EXCEPT !.guests = Append(@, GuestOf(name, email, group, v))]
    IN F[Len(lines)]

\* parseCSV: what it passes to setErrors, and to setParsedData unless it
\* returns early.
ParseCSV(csv, v) ==
    LET lines == CsvLines(csv) IN
    IF Len(lines) < 2
    THEN [returnedEarly |-> TRUE, errors |-> <<ErrTooShort>>, guests |-> <<>>]
    ELSE LET headers == HeadersOf(lines[1])
             missing == MissingFields(headers, v) IN
         IF Len(missing) > 0
         THEN [returnedEarly |-> TRUE, errors |-> <<ErrMissingColumns(missing)>>,
               guests |-> <<>>]
         ELSE LET r == ParseRows(lines, headers, v) IN
              [returnedEarly |-> FALSE, errors |-> r.parseErrors, guests |-> r.guests]


\* ------------------------------------------ bulk import dialog: the files
JoinLines(ls) ==
    LET F[i \in 1..Len(ls)] == IF i = 1 THEN ls[1] ELSE F[i - 1] \o <<Nl>> \o ls[i]
    IN IF Len(ls) = 0 THEN <<>> ELSE F[Len(ls)]

AnnMail == <<"ann", At, "x", Dot, "io">>
BobMail == <<"bob", At, "x", Dot, "io">>
HdrName == <<"name", Comma, "email", Comma, "groupName">>
LineAnn == <<"Ann">> \o <<Comma>> \o AnnMail \o <<Comma, "Team">>
LineBob == <<"Bob">> \o <<Comma>> \o BobMail \o <<Comma, "Team">>
\* The texts the file reader delivers:
\*  1 the scenario (second row 'not-an-email')    2 quoted, padded, CR
\*  3 a repeated row        4 too few fields, empty name, too many fields
\*  5 blank lines           6 two '@', a space, two dots, empty group
\*  7 header alone          8 empty text     9 header without name and group
\* 10 group_name           11 Name, EMAIL, Group      12 reordered, with role
\* 13 groupId              14 Group_ID
CsvFiles ==
    << JoinLines(<<HdrName, LineAnn, <<"Bob", Comma, "not-an-email", Comma, "Team">>>>),
       JoinLines(<<HdrName, LineAnn,
                   <<Quote, "Bob", Quote, Comma, Sp>> \o BobMail
                      \o <<Sp, Comma, Quote, "Team", Quote, Cr>>>>),
       JoinLines(<<HdrName, LineAnn, LineAnn>>),
       JoinLines(<<HdrName,
                   <<"Bob", Comma>> \o BobMail,
                   <<Quote, Quote, Comma>> \o BobMail \o <<Comma, "Team">>,
                   LineAnn \o <<Comma, "VIP", Comma, "x">>>>),
       JoinLines(<<HdrName, <<Sp>>, <<"Bob", Comma, "bob", At, "x", Comma, "Team">>,
                   <<>>, LineBob, <<>>>>),
       JoinLines(<<HdrName,
                   <<"Bob", Comma, "bob", At, At, "x", Dot, "io", Comma, "Team">>,
                   <<"Bob", Comma, "bob", Sp, "b", At, "x", Dot, "io", Comma, "Team">>,
                   <<"Ann", Comma>> \o AnnMail \o <<Dot, "uk", Comma, "Team">>,
                   <<"Bob", Comma>> \o BobMail \o <<Comma, Sp>>>>),
       JoinLines(<<HdrName>>),
       <<>>,
       JoinLines(<<<<"email", Comma, "role">>, LineAnn>>),
       JoinLines(<<<<"name", Comma, "email", Comma, "group_name">>, LineAnn>>),
       JoinLines(<<<<"Name", Sp, Comma, "EMAIL", Comma, "Group", Cr>>, LineBob>>),
       JoinLines(<<<<"role", Comma, "groupName", Comma, "name", Comma, "email">>,
                   <<"VIP", Comma, "Team", Comma, "Ann", Comma>> \o AnnMail>>),
       JoinLines(<<<<"name", Comma, "email", Comma, "groupId">>,
                   <<"Ann", Comma>> \o AnnMail \o <<Comma, "g1">>>>),
       JoinLines(<<<<"name", Comma, "email", Comma, "Group_ID">>,
                   <<"Ann", Comma>> \o AnnMail \o <<Comma, "g1">>>>) >>

FileIds == 1..Len(CsvFiles)


\* ---------------------------------------- bulk import dialog: the handlers
\* The dialog of the event 'e1' (group-name variant).
DialogEventId == "e1"

DialogFrame ==
    UNCHANGED <<dbEvents, dbGroups, dbAttendees, now, pageVars, saveVars, adminVars,
                toolVars>>

\* setParsedData([]); setErrors([]); fileInputRef.current.value = ''
ResetState(d) == [d EXCEPT !.parsedData = <<>>, !.errors = <<>>, !.file = 0]

\* The menu item 'Import from CSV'.
OpenDialog ==
    /\ ~dlg.open
    /\ dlg' = [dlg EXCEPT !.open = TRUE]
    /\ UNCHANGED bi
    /\ DialogFrame

\* handleFileUpload: a file is chosen and the reader started.
HandleFileUpload(f) ==
    /\ dlg.open /\ dlg.reading = 0
    /\ dlg' = [dlg EXCEPT !.reading = f]
    /\ UNCHANGED bi
    /\ DialogFrame

\* reader.onload: parseCSV(csv) on the text read.
ReaderOnLoad ==
    /\ dlg.reading # 0
    /\ LET r == ParseCSV(CsvFiles[dlg.reading], GroupNameVariant) IN
       dlg' = IF r.returnedEarly
              THEN [dlg EXCEPT !.reading = 0, !.file = dlg.reading, !.errors = r.errors]
              ELSE [dlg EXCEPT !.reading = 0, !.file = dlg.reading, !.errors = r.errors,
                               !.parsedData = r.guests]
    /\ UNCHANGED bi
    /\ DialogFrame

\* The disabled attribute of the Import button, negated.
ImportEnabledWithErrors(d) == ~d.isLoading /\ Len(d.parsedData) # 0

ImportEnabled(d) == ~d.isLoading /\ Len(d.parsedData) # 0 /\ Len(d.errors) = 0

\* handleImport up to the await: bulkImportAttendees(eventId, parsedData)
\* has grouped its input.
HandleImport ==
    /\ dlg.open /\ ImportEnabled(dlg)
    /\ nextAttendeeId + Len(dlg.parsedData) <= MaxAttendees
    /\ dlg' = [dlg EXCEPT !.isLoading = TRUE, !.sent = dlg.parsedData]
    /\ bi' = BulkStarted(DialogEventId, dlg.parsedData)
    /\ DialogFrame

\* handleImport after the await: the result decides, then finally.
HandleImportReturns ==
    /\ dlg.isLoading /\ bi.pc = "done"
    /\ LET d1 == IF bi.successCount > 0
                 THEN ResetState([dlg EXCEPT !.open = FALSE])
                 ELSE dlg
           d2 == IF Len(bi.errors) > 0 THEN [d1 EXCEPT !.errors = bi.errors] ELSE d1 IN
       dlg' = [d2 EXCEPT !.isLoading = FALSE]
    /\ UNCHANGED bi
    /\ DialogFrame

\* handleClose: Cancel, or the dialog's own close control.
HandleClose ==
    /\ dlg.open
    /\ dlg' = ResetState([dlg EXCEPT !.open = FALSE])
    /\ UNCHANGED bi
    /\ DialogFrame

\* The dialog without its Import button: every text is parsed.
NextParse ==
    \/ OpenDialog
    \/ \E f \in FileIds : HandleFileUpload(f)
    \/ ReaderOnLoad
    \/ HandleClose

SpecParse == InitAdminSpec /\ [][NextParse]_vars

\* The texts of the import runs: the scenario, two rows of one group, a
\* header alone, a header without the group column, one row.
ImportFileIds == {1, 2, 7, 9, 12}

NextDialog ==
    \/ OpenDialog
    \/ \E f \in ImportFileIds : HandleFileUpload(f)
    \/ ReaderOnLoad
    \/ HandleImport
    \/ BulkLookup
    \/ BulkCreate
    \/ BulkInsert
    \/ HandleImportReturns
    \/ HandleClose

SpecDialog == InitAdminSpec /\ [][NextDialog]_vars


\* ------------------------------------------------- properties of parseCSV
\* The step in which the reader delivers a text and parseCSV runs on it.
ParseStep == dlg.reading # 0 /\ dlg'.reading = 0

\* The non-empty lines of the text being read; line 1 is the header.
ReadLines == CsvLines(CsvFiles[dlg.reading])

HeaderHas(line, col) ==
    \E i \in 1..Len(HeadersOf(line)) : HeadersOf(line)[i] = <<col>>

\* The cleaned field of a data line under the only column called col.
CleanField(hdr, line, col) ==
    LET i == CHOOSE k \in 1..Len(HeadersOf(hdr)) : HeadersOf(hdr)[k] = <<col>> IN
    Trim(StripQuotes(SplitOn(line, Comma)[i]))

CommaCount(line) == Cardinality({i \in 1..Len(line) : line[i] = Comma})

EnoughFields(hdr, line) == CommaCount(line) >= CommaCount(hdr)

\* local@domain.tld: one '@' with text before it, no white space, and after
\* the '@' a dot with text on both sides.
EmailShape(s) ==
    /\ Cardinality({i \in 1..Len(s) : s[i] = At}) = 1
    /\ \A i \in 1..Len(s) : ~IsSpace(s[i])
    /\ s[1] # At
    /\ \E d \in 2..(Len(s) - 1) : s[d] = Dot /\ s[d - 1] # At /\ \E a \in 1..(d - 2) : s[a] = At

ValidLine(hdr, line) ==
    /\ EnoughFields(hdr, line)
    /\ CleanField(hdr, line, "name") # <<>>
    /\ CleanField(hdr, line, "email") # <<>>
    /\ CleanField(hdr, line, "groupname") # <<>>
    /\ EmailShape(CleanField(hdr, line, "email"))

TripleOfLine(hdr, line) ==
    [name |-> TextOf(CleanField(hdr, line, "name")),
     email |-> TextOf(CleanField(hdr, line, "email")),
     groupName |-> TextOf(CleanField(hdr, line, "groupname"))]

\* C15: for a text with a header holding name, email and groupname once each
\* and at least one data line, parseCSV stores as rows exactly the valid data
\* lines, in input order and with repetitions, and as errors one entry per
\* data line that has enough fields and is not valid, numbered by the line's
\* position among the non-empty lines (header = 1); lines with too few
\* fields give neither.
C15_ParseStep ==
    (/\ ParseStep
     /\ Len(ReadLines) >= 2
     /\ \A col \in {"name", "email", "groupname"} : HeaderHas(ReadLines[1], col)) =>
        LET lines == ReadLines
            hdr == lines[1]
            valid == {j \in 2..Len(lines) : ValidLine(hdr, lines[j])}
            bad == {j \in 2..Len(lines) :
                       EnoughFields(hdr, lines[j]) /\ ~ValidLine(hdr, lines[j])}
            triples == [j \in 1..Len(lines) |->
                           IF j \in valid THEN TripleOfLine(hdr, lines[j]) ELSE <<>>]
            errs == dlg'.errors IN
        /\ dlg'.parsedData = Filter(triples, valid)
        /\ Len(errs) = Cardinality(bad)
        /\ \A k \in 1..Len(errs) : errs[k][1] = "Row" /\ errs[k][2] \in bad
        /\ \A k \in 1..(Len(errs) - 1) : errs[k][2] < errs[k + 1][2]

C15_ParseReturnsValidRows == [][C15_ParseStep]_vars

\* The scenario text has been parsed: one row, one error naming line 3.
C15_Witness ==
    /\ dlg.file = 1 /\ dlg.reading = 0
    /\ Len(dlg.parsedData) = 1 /\ dlg.parsedData[1].name = "Ann"
    /\ Len(dlg.errors) = 1
    /\ dlg.errors[1][1] = "Row" /\ dlg.errors[1][2] = 3
    /\ dlg.errors[1][3] = "Invalid email format"


\* The required columns a header lacks, the group column counting as present
\* under any of its spellings.
LackingColumns(hdr) ==
    Filter(<<"name", "email", "groupname">>,
           {k \in 1..3 :
               CASE k = 1 -> ~HeaderHas(hdr, "name")
                 [] k = 2 -> ~HeaderHas(hdr, "email")
                 [] OTHER -> \A c \in GroupNameVariant.groupCases : ~HeaderHas(hdr, c)})

C16_ErrorStep ==
    (ParseStep /\ Len(ReadLines) >= 2 /\ Len(LackingColumns(ReadLines[1])) > 0) =>
        /\ Len(dlg'.errors) = 1
        /\ dlg'.errors[1] = ErrMissingColumns(LackingColumns(ReadLines[1]))

C16_RowsStep ==
    (ParseStep /\ Len(ReadLines) >= 2 /\ Len(LackingColumns(ReadLines[1])) > 0) =>
        Len(dlg'.parsedData) = 0

\* C16: a parse of a text whose header lacks name, email or the group column
\* leaves exactly one error, which lists every missing column, and no parsed
\* row in the dialog, whatever was parsed before.
C16_MissingColumnsYieldNoRows == [][C16_ErrorStep /\ C16_RowsStep]_vars


ValidLineWith(hdr, line, groupCol) ==
    /\ EnoughFields(hdr, line)
    /\ CleanField(hdr, line, "name") # <<>>
    /\ CleanField(hdr, line, "email") # <<>>
    /\ CleanField(hdr, line, groupCol) # <<>>
    /\ EmailShape(CleanField(hdr, line, "email"))

\* The header is made of name, email and the one group column c.
HeaderMadeOf(hdr, c) ==
    /\ Len(HeadersOf(hdr)) = 3
    /\ HeaderHas(hdr, "name") /\ HeaderHas(hdr, "email") /\ HeaderHas(hdr, c)

\* C17: a text whose header is name, email and one accepted spelling of the
\* group column, in any letter case, passes the required-column check of
\* the variant that accepts the spelling, and its valid lines are parsed
\* with that column as the group field.
C17_SpellingStep ==
    (ParseStep /\ Len(ReadLines) >= 2) =>
        \A v \in {GroupNameVariant, GroupIdVariant} : \A c \in v.groupCases :
           HeaderMadeOf(ReadLines[1], c) =>
              LET lines == ReadLines
                  r == ParseCSV(CsvFiles[dlg.reading], v)
                  valid == {j \in 2..Len(lines) : ValidLineWith(lines[1], lines[j], c)} IN
              /\ ~r.returnedEarly
              /\ Len(r.guests) = Cardinality(valid)
              /\ \A k \in 1..Len(r.guests) : \E j \in valid :
                    TextOf(CleanField(lines[1], lines[j], c)) =
                       (IF v.id THEN r.guests[k].groupId ELSE r.guests[k].groupName)
              /\ ~v.id => dlg'.parsedData = r.guests

C17_EverySpellingAccepted == [][C17_SpellingStep]_vars


\* -------------------------------------------- properties of the dialog
\* The step in which handleImport calls bulkImportAttendees.
ImportStep == ~dlg.isLoading /\ dlg'.isLoading

\* row is a valid data line of the text.
ValidatedIn(csv, row) ==
    LET lines == CsvLines(csv) IN
    /\ Len(lines) >= 2
    /\ \A col \in {"name", "email", "groupname"} : HeaderHas(lines[1], col)
    /\ \E j \in 2..Len(lines) :
          /\ ValidLine(lines[1], lines[j])
          /\ TripleOfLine(lines[1], lines[j]) = row

C18_ImportStep ==
    ImportStep =>
       /\ dlg.file # 0
       /\ ~ParseCSV(CsvFiles[dlg.file], GroupNameVariant).returnedEarly
       /\ \A i \in 1..Len(dlg.parsedData) :
             ValidatedIn(CsvFiles[dlg.file], dlg.parsedData[i])
       /\ bi'.input = dlg.parsedData
       /\ dlg'.sent = dlg.parsedData

C18_InsertedInv ==
    /\ bi.pc # "idle" => bi.input = dlg.sent
    /\ \A a \in Rows(dbAttendees) :
          /\ \E f \in FileIds :
                ValidatedIn(CsvFiles[f],
                            BulkRow(a.name, a.email, dbGroups[a.group_id].name))
          /\ a.id \in bi.inserted =>
                \E i \in 1..Len(dlg.sent) :
                   dlg.sent[i] = BulkRow(a.name, a.email, dbGroups[a.group_id].name)

\* C18: the rows handed to bulkImportAttendees are the rows of the dialog's
\* most recent parse, that parse did not abort and each row is one of its
\* valid lines; every attendee an import inserted is one of the rows handed
\* over.
C18_OnlyValidatedRowsPersisted == []C18_InsertedInv /\ [][C18_ImportStep]_vars

\* An import of two rows has returned with both inserted.
C18_Witness ==
    /\ ~dlg.isLoading /\ Len(dlg.sent) = 2
    /\ bi.pc = "done" /\ bi.successCount = 2
    /\ Cardinality(bi.inserted) = 2 /\ bi.inserted \subseteq DOMAIN dbAttendees


\* ------------------------------------------- bulk import on given stores
\* The stores an import finds in event e1: nothing yet; a group 'Team' with
\* one attendee; two groups 'Ann' of one attendee each, as two addGuest calls
\* for a guest 'Ann' with a new group leave them.
BulkStores ==
    { [groups |-> <<>>, attendees |-> <<>>],
      [groups |-> ("gT" :> GroupRow("gT", "e1", "Team", "bob@x.io")),
       attendees |->
          ("aT" :> AttendeeRow("aT", "e1", "gT", "Bob", "bob@x.io", FALSE, NullTime, NULL))],
      [groups |-> [g \in {"gA", "gB"} |-> GroupRow(g, "e1", "Ann", "ann@x.io")],
       attendees |->
          [a \in {"aA", "aB"} |->
              AttendeeRow(a, "e1", IF a = "aA" THEN "gA" ELSE "gB", "Ann", "ann@x.io",
                          FALSE, NullTime, NULL)]] }

InitBulkSpec ==
    /\ dbEvents = {"e1", "e2"}
    /\ \E st \in BulkStores : dbGroups = st.groups /\ dbAttendees = st.attendees
    /\ now = 1
    /\ nextGroupId = 0
    /\ nextAttendeeId = 0
    /\ PageClosed
    /\ InitAdmin
    /\ InitTools

NextBulk ==
    \/ \E input \in BulkInputs : BulkStart("e1", input)
    \/ BulkLookup
    \/ BulkCreate
    \/ BulkInsert

SpecBulk == InitBulkSpec /\ [][NextBulk]_vars

\* The attendee rows the running import inserted for input row i.
InsertedFor(i) ==
    {a \in Rows(dbAttendees) :
        /\ a.id \in bi.inserted
        /\ a.name = bi.input[i].name /\ a.email = bi.input[i].email
        /\ a.group_id \in DOMAIN dbGroups
        /\ dbGroups[a.group_id].name = bi.input[i].groupName}

InputNames == {bi.input[i].groupName : i \in 1..Len(bi.input)}

FirstEmailOf(n) == GroupAttendeesOf(bi.input, n)[1].email

\* C19: an import that ends without a rejected store call has made one
\* group resolution per distinct group name; the attendees of each name are
\* inserted, not attending, in the event and in one group of that name in
\* the event, which existed before or is the single group the import
\* created for the name (contact email = email of the name's first row).
C19_OneGroupPerName ==
    (bi.pc = "done" /\ ~bi.rejected) =>
       \A n \in InputNames :
          /\ Cardinality({k \in 1..Len(bi.lookups) : bi.lookups[k] = n}) = 1
          /\ Cardinality(GroupsNamed(bi.eventId, n) \cap
                            {dbGroups[g] : g \in bi.created}) <= 1
          /\ \E g \in GroupsNamed(bi.eventId, n) :
                /\ g.id \in bi.created => g.email = FirstEmailOf(n)
                /\ \A i \in 1..Len(bi.input) :
                      bi.input[i].groupName = n =>
                         \E a \in InsertedFor(i) :
                            /\ a.group_id = g.id /\ a.event_id = bi.eventId
                            /\ ~a.is_attending


\* The group names of the input none of whose attendees the import inserted.
FailedNames == {n \in InputNames :
                   \A i \in 1..Len(bi.input) :
                      bi.input[i].groupName = n => InsertedFor(i) = {}}

\* C20: when an import has ended, every group name of the input has been
\* processed, there is one error per failed group, successCount is the
\* number of attendee rows inserted, and successCount plus the number of
\* attendees of the failed groups is the input length.
C20_FailuresStayPerGroup ==
    bi.pc = "done" =>
       /\ \A n \in InputNames : \E k \in 1..Len(bi.lookups) : bi.lookups[k] = n
       /\ Len(bi.errors) = Cardinality(FailedNames)
       /\ bi.inserted \subseteq DOMAIN dbAttendees
       /\ bi.successCount = Cardinality(bi.inserted)
       /\ bi.successCount
             + Cardinality({i \in 1..Len(bi.input) : bi.input[i].groupName \in FailedNames})
          = Len(bi.input)


\* --------------------------------------- EventManagement: CSV export
\* guests: the attendees shown, with the text of each field.
Guest(n, m, g, p) == [name |-> n, email |-> m, groupName |-> g, isPresent |-> p]

\* The lists exported: plain fields; a name with a comma; a name with double
\* quotes; a group name with a comma; an attendee without group name. The
\* menu item is disabled for an empty list.
ExportLists ==
    { <<Guest(<<"Ann">>, AnnMail, <<"Team">>, FALSE),
        Guest(<<"Bob">>, BobMail, <<"Team">>, TRUE)>>,
      <<Guest(<<"Lee", Comma, Sp, "Ann">>, AnnMail, <<"Team">>, FALSE)>>,
      <<Guest(<<"Ann", Sp, Quote, "Annie", Quote>>, AnnMail, <<"Team">>, FALSE)>>,
      <<Guest(<<"Ann">>, AnnMail, <<"Team", Comma, "A">>, TRUE)>>,
      <<Guest(<<"Bob">>, BobMail, <<"Team">>, FALSE),
        Guest(<<"Ann">>, AnnMail, <<>>, FALSE)>> }

\* headers.join(',')
ExportHeader ==
    <<"Name", Comma, "Email", Comma, "Group", Sp, "Name", Comma, "Attendance", Sp, "Status">>

\* One line of the export: the three quoted fields and the status.
ExportLine(g) ==
    <<Quote>> \o g.name \o <<Quote, Comma, Quote>> \o g.email \o <<Quote, Comma, Quote>>
       \o g.groupName \o <<Quote, Comma>>
       \o <<IF g.isPresent THEN "Present" ELSE "Absent">>

\* csvData of downloadCSV
CsvData(guests) ==
    JoinLines(<<ExportHeader>> \o [i \in 1..Len(guests) |-> ExportLine(guests[i])])

\* The exported text with its 'Group Name' column renamed to groupName.
WithGroupNameColumn(csv) ==
    <<"Name", Comma, "Email", Comma, "groupName", Comma, "Attendance", Sp, "Status">>
       \o SubSeq(csv, Len(ExportHeader) + 1, Len(csv))

ExportFileId == Len(CsvFiles) + 1

\* The 'Download CSV' menu item.
DownloadCSV ==
    /\ ~ex.made
    /\ Len(ex.guests) # 0
    /\ ex' = [ex EXCEPT !.csv = CsvData(ex.guests), !.made = TRUE]
    /\ UNCHANGED <<de, auth, searchTerm, rt>>
    /\ UNCHANGED <<storeVars, pageVars, saveVars, adminVars, importVars>>

\* The export, its group column renamed, is chosen in the import dialog and
\* the reader delivers it to parseCSV.
UploadExport ==
    /\ dlg.open /\ dlg.reading = 0 /\ ex.made
    /\ LET r == ParseCSV(WithGroupNameColumn(ex.csv), GroupNameVariant) IN
       dlg' = IF r.returnedEarly
              THEN [dlg EXCEPT !.file = ExportFileId, !.errors = r.errors]
              ELSE [dlg EXCEPT !.file = ExportFileId, !.errors = r.errors,
                               !.parsedData = r.guests]
    /\ UNCHANGED bi
    /\ DialogFrame

InitExportSpec ==
    /\ InitAdminStore /\ PageClosed /\ InitAdmin
    /\ \E gs \in ExportLists : ex = [ExIdle EXCEPT !.guests = gs]
    /\ de = DeIdle /\ auth = AuthSignedOut /\ searchTerm = NoSearch /\ rt = RtClosed

NextExport ==
    \/ OpenDialog
    \/ DownloadCSV
    \/ UploadExport
    \/ \E f \in ImportFileIds : HandleFileUpload(f)
    \/ ReaderOnLoad
    \/ HandleClose

SpecExport == InitExportSpec /\ [][NextExport]_vars

\* The step that parses the export.
ExportParseStep == dlg.file # ExportFileId /\ dlg'.file = ExportFileId

TriplesOf(rows) ==
    {<<rows[i].name, rows[i].email, rows[i].groupName>> : i \in 1..Len(rows)}

GuestTriples(guests) ==
    {<<TextOf(guests[i].name), TextOf(guests[i].email), TextOf(guests[i].groupName)>> :
        i \in 1..Len(guests)}

\* C21: parsing the export of a list, its group column renamed, leaves no
\* parse error and rows whose (name, email, group) triples are those of the
\* list.
C21_RoundTripStep ==
    ExportParseStep =>
       /\ Len(dlg'.errors) = 0
       /\ TriplesOf(dlg'.parsedData) = GuestTriples(ex.guests)

C21_ExportRoundTrips == [][C21_RoundTripStep]_vars


\* ------------------------------------------------ data layer: deleteEvent
\* ON DELETE CASCADE of groups.event_id, attendees.event_id and
\* attendees.group_id: the rows that stay when event e is deleted.
GroupsKeptOnDelete(e) == dbGroups

GroupsAfterDelete(e) ==
    [g \in {x \in DOMAIN dbGroups : dbGroups[x].event_id # e} |-> dbGroups[g]]

AttendeesAfterDelete(e) ==
    [a \in {x \in DOMAIN dbAttendees :
               /\ dbAttendees[x].event_id # e
               /\ dbAttendees[x].group_id \in DOMAIN GroupsAfterDelete(e)} |->
        dbAttendees[a]]

\* delete from attendees where event_id = e
AttendeesOfOtherEvents(e) ==
    [a \in {x \in DOMAIN dbAttendees : dbAttendees[x].event_id # e} |-> dbAttendees[a]]

AttendeeIdsOf(e) == {a \in DOMAIN dbAttendees : dbAttendees[a].event_id = e}

DeleteFrame ==
    UNCHANGED <<now, pageVars, saveVars, adminVars, importVars, ex, auth, searchTerm, rt>>

\* deleteEvent up to the return of its first delete; the result of that
\* delete is not looked at.
DeleteEventAttendees(e) ==
    /\ de.pc \in {"idle", "done"}
    /\ \E rejected \in BOOLEAN :
          dbAttendees' = IF rejected THEN dbAttendees ELSE AttendeesOfOtherEvents(e)
    /\ de' = [pc |-> "event", eventId |-> e, result |-> NULL, had |-> AttendeeIdsOf(e)]
    /\ UNCHANGED <<dbEvents, dbGroups>>
    /\ DeleteFrame

\* The delete of the events row returns: an error is thrown and caught
\* (false), otherwise true.
DeleteEventRow ==
    /\ de.pc = "event"
    /\ \E rejected \in BOOLEAN :
          IF rejected
          THEN /\ de' = [de EXCEPT !.pc = "done", !.result = FALSE]
               /\ UNCHANGED <<dbEvents, dbGroups, dbAttendees>>
          ELSE /\ de' = [de EXCEPT !.pc = "done", !.result = TRUE]
               /\ dbEvents' = dbEvents \ {de.eventId}
               /\ dbGroups' = GroupsAfterDelete(de.eventId)
               /\ dbAttendees' = AttendeesAfterDelete(de.eventId)
    /\ DeleteFrame

\* Two events, each with one group and one attendee; administrators add
\* guests to either event while events are deleted.
InitDeleteSpec ==
    /\ dbEvents = {"e1", "e2"}
    /\ dbGroups = [g \in {"gE1", "gE2"} |->
                      GroupRow(g, IF g = "gE1" THEN "e1" ELSE "e2", "Ann", "ann@x.io")]
    /\ dbAttendees =
          [a \in {"aE1", "aE2"} |->
              AttendeeRow(a, IF a = "aE1" THEN "e1" ELSE "e2",
                          IF a = "aE1" THEN "gE1" ELSE "gE2", "Ann", "ann@x.io",
                          FALSE, NullTime, NULL)]
    /\ now = 1
    /\ nextGroupId = 0
    /\ nextAttendeeId = 0
    /\ PageClosed
    /\ InitAdmin
    /\ InitTools

\* The guests added meanwhile: Ann into the group named Ann, Ann into a
\* group of their own.
DeleteGuestInputs ==
    {d \in GuestInputs : d.name = "Ann" /\ ~d.isPresent}

NextDelete ==
    \/ \E e \in {"e1", "e2"} : DeleteEventAttendees(e)
    \/ DeleteEventRow
    \/ \E e \in {"e1", "e2"}, d \in DeleteGuestInputs : AddGuestResolve(e, d)
    \/ AddGuestInsert

SpecDelete == InitDeleteSpec /\ [][NextDelete]_vars

RowsOfEvent(tbl, e) == {r \in Rows(tbl) : r.event_id = e}

\* C22: once deleteEvent(E) has returned true the store holds no event E
\* and no group or attendee of E, and no step of deleteEvent(E) changes a
\* group or an attendee of another event.
C22_DeletedInv ==
    (de.pc = "done" /\ de.result = TRUE) =>
       /\ de.eventId \notin dbEvents
       /\ RowsOfEvent(dbGroups, de.eventId) = {}
       /\ RowsOfEvent(dbAttendees, de.eventId) = {}

C22_OthersStep ==
    (de' # de /\ de'.pc \in {"event", "done"}) =>
       \A e \in {"e1", "e2"} \ {de'.eventId} :
          /\ RowsOfEvent(dbGroups', e) = RowsOfEvent(dbGroups, e)
          /\ RowsOfEvent(dbAttendees', e) = RowsOfEvent(dbAttendees, e)
          /\ (e \in dbEvents') = (e \in dbEvents)

C22_DeleteCascades == []C22_DeletedInv /\ [][C22_OthersStep]_vars

\* deleteEvent(e1) returned true for an event that had a group and an
\* attendee the first delete did not remove; the rows of e2 are there.
C22_Witness ==
    /\ de.pc = "done" /\ de.result = TRUE /\ de.eventId = "e1"
    /\ de.had # {}
    /\ RowsOfEvent(dbGroups, "e2") # {}
    /\ RowsOfEvent(dbAttendees, "e2") # {}

\* C30: when deleteEvent(E) has returned false every attendee E had at the
\* call is still stored, and when addGuest has returned null the store holds
\* no group row that call added.
C30_DeleteFailedInv ==
    (de.pc = "done" /\ de.result = FALSE) => de.had \subseteq DOMAIN dbAttendees

C30_AddFailedInv ==
    (agLast.outcome = "null" /\ agLast.createdGroup # NULL) =>
       agLast.createdGroup \notin DOMAIN dbGroups

C30_FailureLeavesNoPartialEffect == C30_DeleteFailedInv /\ C30_AddFailedInv


\* ------------------------------------- AuthProvider and GraphEmailService
\* A JavaScript string or null used as a condition.
NonEmpty(t) == t # NULL /\ t # ""

\* The sessions Supabase hands over: none, a password session, Microsoft
\* sessions with, with an empty and without a provider token.
Sessions ==
    {NoSession} \cup
    [present : {TRUE}, user : {"u1"}, provider : {"azure", "email"},
     provider_token : {NULL, "", "tok1", "tok2"}]

AuthEvents == {"INITIAL_SESSION", "SIGNED_IN", "SIGNED_OUT", "TOKEN_REFRESHED"}

\* session?.user
SessionUser(sess) == IF sess.present THEN sess.user ELSE NULL

\* storedToken && session?.user
RestoresAnyStored(storedToken, sess) == NonEmpty(storedToken)

Restores(storedToken, sess) == NonEmpty(storedToken) /\ SessionUser(sess) # NULL

\* session?.provider_token && session?.user.app_metadata?.provider === 'azure'
IsMicrosoftSignIn(sess) == NonEmpty(sess.provider_token) /\ sess.provider = "azure"

AuthFrame ==
    UNCHANGED <<storeVars, pageVars, saveVars, adminVars, importVars, ex, de, searchTerm, rt>>

\* The provider mounts (first load or page reload): component state starts
\* over, sessionStorage stays, getSession is under way.
AuthMount ==
    /\ auth' = [auth EXCEPT !.user = NULL, !.microsoftAccessToken = NULL,
                            !.getSession = TRUE,
                            !.last = [NoAuthStep EXCEPT !.kind = "mount"]]
    /\ AuthFrame

\* getSession().then(...)
GetSessionThen(sess) ==
    /\ auth.getSession
    /\ auth' = [auth EXCEPT !.user = SessionUser(sess),
                            !.microsoftAccessToken =
                                IF Restores(auth.stored, sess) THEN auth.stored ELSE @,
                            !.getSession = FALSE,
                            !.last = [kind |-> "getSession", event |-> NULL, session |-> sess]]
    /\ AuthFrame

\* The onAuthStateChange callback.
OnAuthStateChange(event, sess) ==
    /\ auth.last.kind # "none"
    /\ LET stores == event = "SIGNED_IN" /\ SessionUser(sess) # NULL /\ IsMicrosoftSignIn(sess)
           clears == event = "SIGNED_OUT" IN
       auth' = [auth EXCEPT
                  !.user = SessionUser(sess),
                  !.microsoftAccessToken =
                      IF clears THEN NULL ELSE IF stores THEN sess.provider_token ELSE @,
                  !.stored =
                      IF clears THEN NULL ELSE IF stores THEN sess.provider_token ELSE @,
                  !.last = [kind |-> "event", event |-> event, session |-> sess]]
    /\ AuthFrame

\* new GraphEmailService(accessToken): whether graphClient is set.
GraphClientSet(accessToken) == NonEmpty(accessToken)

\* createGraphEmailService: null, or a service with its client.
CreateGraphEmailService(accessToken) ==
    IF ~NonEmpty(accessToken)
    THEN [service |-> FALSE, graphClient |-> FALSE]
    ELSE [service |-> TRUE, graphClient |-> GraphClientSet(accessToken)]

\* sendEmail: throws without a client, otherwise posts /me/sendMail.
SendEmailOutcome(graphClient) == IF ~graphClient THEN "threw" ELSE "posted"

\* A page takes the token from the context, creates the service and, when
\* there is one, sends.
SendWithContextToken ==
    /\ auth.last.kind # "none"
    /\ LET svc == CreateGraphEmailService(auth.microsoftAccessToken) IN
       auth' = [auth EXCEPT
                  !.mail = IF svc.service THEN SendEmailOutcome(svc.graphClient)
                           ELSE "no service",
                  !.last = [kind |-> "send", event |-> NULL, session |-> NoSession]]
    /\ AuthFrame

\* sendEmail on a service constructed directly with an empty token.
SendWithoutClient ==
    /\ auth.last.kind # "none"
    /\ auth' = [auth EXCEPT !.mail = SendEmailOutcome(GraphClientSet("")),
                            !.last = [kind |-> "construct", event |-> NULL,
                                      session |-> NoSession]]
    /\ AuthFrame

InitAuthSpec ==
    /\ InitAdminStore /\ PageClosed /\ InitAdmin
    /\ ex = ExIdle /\ de = DeIdle /\ searchTerm = NoSearch /\ rt = RtClosed
    /\ auth = AuthSignedOut

NextAuth ==
    \/ AuthMount
    \/ \E sess \in Sessions : GetSessionThen(sess)
    \/ \E event \in AuthEvents, sess \in Sessions : OnAuthStateChange(event, sess)
    \/ SendWithContextToken
    \/ SendWithoutClient

SpecAuth == InitAuthSpec /\ [][NextAuth]_vars

\* C23: no service is made from a null token and sending without a client
\* throws; a send through the context posts only with a token in memory;
\* the step of a SIGNED_OUT event leaves the token null in memory and in
\* sessionStorage; the token in memory becomes non-null only by a SIGNED_IN
\* event of the azure provider with a provider token or by the restore of
\* the stored token with a session user, and the stored one only by the
\* former.
C23_ServiceInv ==
    /\ ~CreateGraphEmailService(NULL).service
    /\ SendEmailOutcome(FALSE) = "threw"
    /\ auth.last.kind = "construct" => auth.mail = "threw"

C23_SendStep ==
    (auth'.last.kind = "send" /\ auth' # auth /\ auth.microsoftAccessToken = NULL) =>
       auth'.mail = "no service"

C23_SignedOutInv ==
    (auth.last.kind = "event" /\ auth.last.event = "SIGNED_OUT") =>
       auth.microsoftAccessToken = NULL /\ auth.stored = NULL

MicrosoftSignInStep ==
    /\ auth'.last.kind = "event" /\ auth'.last.event = "SIGNED_IN"
    /\ auth'.last.session.provider = "azure"
    /\ NonEmpty(auth'.last.session.provider_token)
    /\ auth'.microsoftAccessToken = auth'.last.session.provider_token

RestoreStep ==
    /\ auth'.last.kind = "getSession"
    /\ SessionUser(auth'.last.session) # NULL
    /\ auth.stored # NULL
    /\ auth'.microsoftAccessToken = auth.stored

C23_TokenStep ==
    /\ (auth.microsoftAccessToken = NULL /\ auth'.microsoftAccessToken # NULL) =>
          MicrosoftSignInStep \/ RestoreStep
    /\ (auth.stored = NULL /\ auth'.stored # NULL) => MicrosoftSignInStep

C23_EmailNeedsProviderToken ==
    [](C23_ServiceInv /\ C23_SignedOutInv) /\ [][C23_SendStep /\ C23_TokenStep]_vars

\* A mail was posted through the context with the token a Microsoft
\* sign-in put in memory and in sessionStorage.
C23_Witness ==
    /\ auth.mail = "posted"
    /\ auth.last.kind = "send"
    /\ auth.microsoftAccessToken = "tok1" /\ auth.stored = "tok1"


\* C24: markAllPresent leaves every attendee that is already present as it
\* is (check-in time and operator included) and clearAll every attendee that
\* is already absent.
C24_MarkAllStep ==
    MarkAllPresent =>
       \A i \in 1..Len(attendees) :
          attendees[i].is_attending => attendees'[i] = attendees[i]

C24_ClearAllStep ==
    ClearAll =>
       \A i \in 1..Len(attendees) :
          ~attendees[i].is_attending => attendees'[i] = attendees[i]

C24_BulkTouchesOnlyOthers == [][C24_MarkAllStep /\ C24_ClearAllStep]_vars


\* --------------------------------------------- attendance page: search box
\* The characters of the texts the rows hold.
CharsOf(text) ==
    CASE text = "Ann" -> <<"A", "n", "n">>
      [] text = "Bob" -> <<"B", "o", "b">>
      [] text = "Cy" -> <<"C", "y">>
      [] text = "x@y.z" -> <<"x", "@", "y", ".", "z">>
      [] OTHER -> <<"?">>

LowerChar(c) ==
    CASE c = "A" -> "a" [] c = "B" -> "b" [] c = "C" -> "c" [] c = "N" -> "n"
      [] OTHER -> c

\* String.prototype.toLowerCase
LowerChars(cs) == [i \in 1..Len(cs) |-> LowerChar(cs[i])]

\* String.prototype.includes
Includes(hay, needle) ==
    \E k \in 0..(Len(hay) - Len(needle)) :
       \A j \in 1..Len(needle) : hay[k + j] = needle[j]

\* What is typed into the search box.
SearchTerms == { <<>>, <<"A", "N">>, <<"c", "y">>, <<"y">>, <<"q">> }

\* attendee.groups: the group row joined to the attendee.
GroupFieldMatches(a, term, field) ==
    /\ a.group_id \in DOMAIN dbGroups
    /\ Includes(LowerChars(CharsOf(dbGroups[a.group_id][field])), LowerChars(term))

MatchesSearch(a, term) ==
    \/ Includes(LowerChars(CharsOf(a.name)), LowerChars(term))
    \/ Includes(LowerChars(CharsOf(a.email)), LowerChars(term))
    \/ GroupFieldMatches(a, term, "name")
    \/ GroupFieldMatches(a, term, "email")

\* filteredAttendees
FilteredAttendees ==
    IF isQRMode THEN attendees
    ELSE Filter(attendees, {i \in 1..Len(attendees) : MatchesSearch(attendees[i], searchTerm)})

\* onChange of the search input, shown in manual mode.
SetSearchTerm(term) ==
    /\ MainView /\ ~isQRMode
    /\ term # searchTerm
    /\ searchTerm' = term
    /\ UNCHANGED <<storeVars, pageVars, saveVars, adminVars, importVars, ex, de, auth, rt>>

\* The attendee whose checkbox is the k-th of the displayed list.
DisplayedIdByPosition(k) == attendees[k].id

DisplayedId(k) == FilteredAttendees[k].id

\* onCheckedChange of the k-th displayed row.
ToggleDisplayed(k) ==
    /\ k \in 1..Len(FilteredAttendees)
    /\ ToggleAttendance(DisplayedId(k))

NextSearch ==
    \/ Mount
    \/ LoadGetEvent
    \/ LoadGetAttendees
    \/ \E term \in SearchTerms : SetSearchTerm(term)
    \/ \E k \in 1..2 : ToggleDisplayed(k)
    \/ MarkAllPresent
    \/ ClearAll
    \/ SaveAttendance
    \/ SavePresentReturns
    \/ SaveAbsentReturns

SpecSearch == Init /\ [][NextSearch]_vars


\* The ids whose working flag differs from the flag of their baseline row.
DirtyIds ==
    {a.id : a \in {x \in SeqSet(attendees) :
                      \E o \in SeqSet(originalAttendees) :
                         o.id = x.id /\ o.is_attending # x.is_attending}}

\* C25: a change of the search term leaves working copy, baseline and dirty
\* flag as they are; the checkbox of a displayed row toggles the attendee
\* that row shows and no other; markAllPresent and clearAll, when they act,
\* reach every attendee of the working copy, hidden ones included; the
\* batches of a save hold every attendee whose flag differs from the
\* baseline, hidden ones included.
C25_TermStep ==
    searchTerm' # searchTerm =>
       UNCHANGED <<attendees, originalAttendees, hasUnsavedChanges>>

C25_ToggleStep ==
    \A k \in 1..2 :
       ToggleDisplayed(k) =>
          /\ IdsOf(attendees') = IdsOf(attendees)
          /\ \A i \in 1..Len(attendees) :
                IF attendees[i].id = FilteredAttendees[k].id
                THEN attendees'[i].is_attending = ~attendees[i].is_attending
                ELSE attendees'[i] = attendees[i]

C25_BulkStep ==
    /\ (MarkAllPresent /\ ~AllPresent(attendees)) => AllPresent(attendees')
    /\ (ClearAll /\ ~NonePresent(attendees)) => NonePresent(attendees')

C25_SaveStep ==
    (SaveAttendance /\ savePc' # "idle") =>
       SeqSet(sv'.toMarkPresent) \cup SeqSet(sv'.toMarkAbsent) = DirtyIds

C25_FilterIsDisplayOnly ==
    [][C25_TermStep /\ C25_ToggleStep /\ C25_BulkStep /\ C25_SaveStep]_vars

\* A save is under way whose present batch holds an attendee the search
\* term hides, while another attendee is displayed.
C25_Witness ==
    /\ savePc # "idle"
    /\ Len(FilteredAttendees) = 1
    /\ \E id \in SeqSet(sv.toMarkPresent) : id \notin IdSet(FilteredAttendees)


\* C26: a Load whose event fetch does not deliver the event ends in the
\* error view; a Load in manual mode of an event that has attendees does not
\* end in the list view with an empty working copy, and a Load of a scanned
\* group that has attendees is not reported as an empty group.
C26_EventStep ==
    LoadGetEvent => (loadPc' = "getAttendees" \/ (~loading' /\ error' # NULL))

C26_ManualStep ==
    (LoadGetAttendees /\ ~ld.qr /\ EventAttendeesQuery(ld.event) # {}) =>
       ~(MainView' /\ attendees' = <<>>)

C26_QrStep ==
    (LoadGetAttendees /\ ld.qr /\ GroupAttendeesQuery(ld.event, ld.group) # {}) =>
       error' # ErrEmptyGroup

C26_RejectedReadFailsLoad == [][C26_EventStep /\ C26_ManualStep /\ C26_QrStep]_vars


\* C27: whenever the list is shown, baseline and working copy hold the same
\* attendee ids in the same order, and the page is never loading and saving
\* at once.
C27_AlignedInv == MainView => IdsOf(originalAttendees) = IdsOf(attendees)

C27_OneAtATimeInv == ~(loading /\ isSaving)

C27_BaselineAligned == C27_AlignedInv /\ C27_OneAtATimeInv


\* One staff session and no other writer.
NextSingle ==
    \/ Mount
    \/ LoadGetEvent
    \/ LoadGetAttendees
    \/ TryAgain
    \/ ContinueScanning
    \/ \E raw \in InlinePayloads : HandleInlineQRScanSuccess(raw)
    \/ \E id \in RosterIds : ToggleAttendance(id)
    \/ MarkAllPresent
    \/ ClearAll
    \/ SaveAttendance
    \/ SavePresentReturns
    \/ SaveAbsentReturns

SpecSingle == Init /\ [][NextSingle]_vars

\* C28: with one session and no other writer, at the step where a
\* saveAttendance completes successfully the stored flag of every attendee of
\* the working copy the save was invoked with equals its flag in that copy,
\* and the flags of the baseline equal the stored flags.
C28_SavedStep ==
    (saveResult' = "saved" /\ saveResult # "saved") =>
       /\ \A i \in 1..Len(sv.attendees) :
             dbAttendees'[sv.attendees[i].id].is_attending = sv.attendees[i].is_attending
       /\ \A i \in 1..Len(originalAttendees') :
             dbAttendees'[originalAttendees'[i].id].is_attending =
                originalAttendees'[i].is_attending

C28_SaveSynchronises == [][C28_SavedStep]_vars


\* ------------------------------- real-time attendance page: toggle calls
\* The toggleAttendance calls that can be under way at once.
RtCallers == {1, 2}

RtCallIdle == [pc |-> "idle", attendeeId |-> NULL, newStatus |-> FALSE]

RtOpened ==
    [pc |-> "open",
     local |-> [a \in DOMAIN dbAttendees |-> dbAttendees[a].is_attending],
     calls |-> [c \in RtCallers |-> RtCallIdle]]

RtInFlight == \E c \in RtCallers : rt.calls[c].pc # "idle"

RtFrame ==
    UNCHANGED <<dbEvents, dbGroups, now, pageVars, saveVars, adminVars, importVars,
                ex, de, auth, searchTerm>>

\* The checkbox of an attendee: toggleAttendance up to the first await of
\* toggleAttendeeAttendance.
RtToggle(c, id) ==
    /\ rt.pc = "open"
    /\ rt.calls[c].pc = "idle"
    /\ rt' = [rt EXCEPT !.calls[c] = [pc |-> "read", attendeeId |-> id, newStatus |-> FALSE]]
    /\ UNCHANGED dbAttendees
    /\ RtFrame

\* The select of is_attending returns: false on an error, otherwise the
\* negation of the flag read is what will be written.
RtRead(c) ==
    /\ rt.pc = "open"
    /\ rt.calls[c].pc = "read"
    /\ \E rejected \in BOOLEAN :
          rt' = IF rejected
                THEN [rt EXCEPT !.calls[c] = RtCallIdle]
                ELSE [rt EXCEPT !.calls[c].pc = "write",
                                !.calls[c].newStatus =
                                    ~dbAttendees[rt.calls[c].attendeeId].is_attending]
    /\ UNCHANGED dbAttendees
    /\ RtFrame

\* The update returns: false on an error, true otherwise.
RtWrite(c) ==
    /\ rt.pc = "open"
    /\ rt.calls[c].pc = "write"
    /\ \E rejected \in BOOLEAN :
          IF rejected
          THEN /\ rt' = [rt EXCEPT !.calls[c] = RtCallIdle]
               /\ UNCHANGED dbAttendees
          ELSE /\ rt' = [rt EXCEPT !.calls[c].pc = "success"]
               /\ dbAttendees' = MarkAttendanceUpdate(dbAttendees, <<rt.calls[c].attendeeId>>,
                                                      rt.calls[c].newStatus, StaffName, now)
    /\ RtFrame

\* if (success) setAttendees(prev => ... !attendee.is_attending ...)
RtFlipLocal(local, id) == [local EXCEPT ![id] = ~local[id]]

RtSuccess(c) ==
    /\ rt.pc = "open"
    /\ rt.calls[c].pc = "success"
    /\ rt' = [rt EXCEPT !.local = RtFlipLocal(rt.local, rt.calls[c].attendeeId),
                        !.calls[c] = RtCallIdle]
    /\ UNCHANGED dbAttendees
    /\ RtFrame

InitRealtimeSpec ==
    /\ InitStore /\ PageClosed /\ InitAdmin
    /\ nextGroupId = 3 /\ nextAttendeeId = 2
    /\ ex = ExIdle /\ de = DeIdle /\ auth = AuthSignedOut /\ searchTerm = NoSearch
    /\ rt = RtOpened

NextRealtime ==
    \/ \E c \in RtCallers, id \in RosterIds : RtToggle(c, id)
    \/ \E c \in RtCallers : RtRead(c)
    \/ \E c \in RtCallers : RtWrite(c)
    \/ \E c \in RtCallers : RtSuccess(c)

SpecRealtime == InitRealtimeSpec /\ [][NextRealtime]_vars

\* C29: in the real-time page, with one session and no other writer,
\* whenever no toggle call is under way the local flag of every attendee
\* equals its stored flag.
C29_LocalIsStored ==
    (rt.pc = "open" /\ ~RtInFlight) =>
       \A a \in DOMAIN rt.local : rt.local[a] = dbAttendees[a].is_attending
====
